---- MODULE Spec2Model ----
(***************************************************************************)
(* Daily ratings tracking and periodic report reminders (ratings.js).      *)
(*                                                                         *)
(* Conventions of the model                                                *)
(*  - a JavaScript string that the code builds or slices is a sequence of  *)
(*    one-character strings; fixed texts are TLA+ strings;                 *)
(*  - a JavaScript Date is a record [y, m, d] of the local calendar date   *)
(*    (m is 0-based as getMonth() is); the time of day is never read by    *)
(*    the scheduling code;                                                 *)
(*  - a JavaScript number is an integer count of tenths (3 is 30);         *)
(*  - a JSON object is a function from its keys to its values;             *)
(*  - a localStorage item is [kind |-> "none"] when the key is not set     *)
(*    and [kind |-> "object", val |-> o] when it holds the JSON text of o; *)
(*  - an ISO timestamp (new Date().toISOString()) is the value of clock;   *)
(*  - Only({e : v \in {x}}) is e with v standing for the value of x: a     *)
(*    local variable of the code, computed once.                           *)
(***************************************************************************)
EXTENDS Integers, Sequences, FiniteSets, TLC

\* ------------------------------------------------------------------------
\* Bounds of the model
\* ------------------------------------------------------------------------
\* Number of times midnight may pass after the first day.
MaxDays == 1
\* Last value of the millisecond clock.
MaxClock == 1
\* Rating inputs the user may change.
MaxSaves == 1
\* Reminder cards one tab may display at once.
MaxCards == 2
\* API requests one tab may have in flight at once.
MaxReqs == 2
\* Successful transport completions counted per period.
MaxDispatch == 2
\* most direct getDueReports calls
MaxCalls == 2
\* most direct markSent calls
MaxMarks == 3
\* Days the calendar functions are followed through after a first date.
MaxCalDays == 7

Only(S) == CHOOSE v \in S : TRUE

\* ------------------------------------------------------------------------
\* Strings
\* ------------------------------------------------------------------------
Digits == <<"0", "1", "2", "3", "4", "5", "6", "7", "8", "9">>

\* String(n) for a non-negative integer n.
RECURSIVE DigitStr(_)
DigitStr(n0) ==
  Only({ IF n < 10 THEN <<Digits[n + 1]>>
         ELSE DigitStr(n \div 10) \o <<Digits[(n % 10) + 1]>> : n \in {n0} })

pad2(n0) ==
  Only({ (IF n < 10 THEN <<"0">> ELSE <<>>) \o DigitStr(n) : n \in {n0} })

\* s.slice(0, n)
slice0(s0, n) ==
  Only({ SubSeq(s, 1, IF n < Len(s) THEN n ELSE Len(s)) : s \in {s0} })

\* ------------------------------------------------------------------------
\* The JavaScript Date object (local calendar date)
\* ------------------------------------------------------------------------
\* MakeDay of ECMAScript: the day number (days since 1970-01-01) of the
\* y/m/d triple; m may be outside 0..11 and d outside the month.
DayNumber(y, m, d) ==
  Only({ Only({ Only({ era * 146097 + (yoe * 365 + (yoe \div 4) - (yoe \div 100) + doy) - 719468
                       : era \in {y2 \div 400},
                         yoe \in {y2 - (y2 \div 400) * 400},
                         doy \in {((153 * (IF m1 > 2 THEN m1 - 3 ELSE m1 + 9) + 2) \div 5) + d - 1} })
                : y2 \in {IF m1 <= 2 THEN yy - 1 ELSE yy} })
         : yy \in {y + (m \div 12)}, m1 \in {(m % 12) + 1} })

\* YearFromTime / MonthFromTime / DateFromTime of ECMAScript.
DateOfDayNumber(n) ==
  Only({ Only({ Only({ Only({ Only({ Only({
      [ y |-> yoe + era * 400 + (IF m1 <= 2 THEN 1 ELSE 0),
        m |-> m1 - 1,
        d |-> doy - ((153 * mp + 2) \div 5) + 1 ]
      : m1  \in {IF mp < 10 THEN mp + 3 ELSE mp - 9} })
      : mp  \in {(5 * doy + 2) \div 153} })
      : doy \in {doe - (365 * yoe + (yoe \div 4) - (yoe \div 100))} })
      : yoe \in {(doe - (doe \div 1460) + (doe \div 36524) - (doe \div 146096)) \div 365} })
      : era \in {z \div 146097},
        doe \in {z - (z \div 146097) * 146097} })
      : z   \in {n + 719468} })

\* new Date(y, m, d): out-of-range fields roll over.
NewDate(y, m, d) == DateOfDayNumber(DayNumber(y, m, d))

getTime(dt0) == Only({ DayNumber(dt.y, dt.m, dt.d) : dt \in {dt0} })

\* Date.prototype.getDay: 0 = Sunday ... 6 = Saturday (1970-01-01: Thursday).
getDay(dt) == (getTime(dt) + 4) % 7

\* dt.setDate(n)
setDate(dt0, n) == Only({ NewDate(dt.y, dt.m, n) : dt \in {dt0} })

\* ------------------------------------------------------------------------
\* ratings.js: utilities
\* ------------------------------------------------------------------------
isoLocal(dt0) ==
  Only({ DigitStr(dt.y) \o <<"-">> \o pad2(dt.m + 1) \o <<"-">> \o pad2(dt.d)
         : dt \in {dt0} })

cloneDate(dt0) == Only({ NewDate(dt.y, dt.m, dt.d) : dt \in {dt0} })

isSunday(dt) == getDay(dt) = 0

\* A variant of lastDayOfMonth in which every fourth year is a leap year.
lastDayOfMonth_julian(dt0) ==
  Only({ IF dt.m = 1 /\ dt.y % 4 = 0 THEN 29 ELSE NewDate(dt.y, dt.m + 1, 0).d
         : dt \in {dt0} })

lastDayOfMonth(dt0) == Only({ NewDate(dt.y, dt.m + 1, 0).d : dt \in {dt0} })

isMonthEnd(dt0) == Only({ dt.d = lastDayOfMonth(dt) : dt \in {dt0} })

\* A variant of isYearEnd that holds on the last two days of the year.
isYearEnd_twodays(dt0) == Only({ dt.m = 11 /\ dt.d >= 30 : dt \in {dt0} })

isYearEnd(dt0) == Only({ dt.m = 11 /\ dt.d = 31 : dt \in {dt0} })

\* A variant of weekStartMonday whose week starts on Sunday.
weekStartMonday_sunday(dt0) ==
  Only({ setDate(start, start.d - getDay(dt0)) : start \in {cloneDate(dt0)} })

weekStartMonday(dt0) ==
  Only({ Only({ setDate(start, start.d - diff)
                : diff \in {(day + 6) % 7}, start \in {cloneDate(dt)} })
         : dt \in {dt0}, day \in {getDay(dt0)} })

weekEndSunday(dt0) ==
  Only({ Only({ setDate(end, end.d + add)
                : add \in {(7 - day) % 7}, end \in {cloneDate(dt)} })
         : dt \in {dt0}, day \in {getDay(dt0)} })

monthStart(dt0) == Only({ NewDate(dt.y, dt.m, 1) : dt \in {dt0} })

monthEnd(dt0) == Only({ NewDate(dt.y, dt.m + 1, 0) : dt \in {dt0} })

yearStart(dt0) == Only({ NewDate(dt.y, 0, 1) : dt \in {dt0} })

yearEnd(dt0) == Only({ NewDate(dt.y, 11, 31) : dt \in {dt0} })

\* ------------------------------------------------------------------------
\* JSON objects and localStorage items
\* ------------------------------------------------------------------------
EmptyObject == [k \in {} |-> 0]

Has(o, k) == k \in DOMAIN o

Put(o0, k0, v0) ==
  Only({ [x \in (DOMAIN o) \cup {k} |-> IF x = k THEN v ELSE o[x]]
         : o \in {o0}, k \in {k0}, v \in {v0} })

NoItem == [kind |-> "none"]

readJson(item0, fallback) ==
  Only({ IF item.kind \in {"none", "unparsable"} THEN fallback ELSE item.val
         : item \in {item0} })

writeJson(value) == [kind |-> "object", val |-> value]

\* ------------------------------------------------------------------------
\* ratings.js: configuration
\* ------------------------------------------------------------------------
CATEGORIES ==
  << [key |-> "consistency",   name |-> "rating_consistency",   label |-> "Consistency"],
     [key |-> "discipline",    name |-> "rating_discipline",    label |-> "Discipline"],
     [key |-> "determination", name |-> "rating_determination", label |-> "Determination"],
     [key |-> "interest",      name |-> "rating_interest",      label |-> "Interest"] >>

CatIdx == 1..Len(CATEGORIES)

\* ------------------------------------------------------------------------
\* ratings.js: the sent ledger
\* ------------------------------------------------------------------------
alreadySent(item, type, periodId) ==
  Only({ Has(sent, type) /\ Has(sent[type], periodId)
         : sent \in {readJson(item, EmptyObject)} })

\* Variants of markSent the properties below must tell from it: one that
\* writes nothing, one that keeps only the new entry, one that removes the
\* entry when it is already there.
markSent_nowrite(item, type, periodId, ts) == item

markSent_single(item, type, periodId, ts) ==
  writeJson(Put(EmptyObject, type, Put(EmptyObject, periodId, ts)))

markSent_toggle(item, type, periodId, ts) ==
  Only({ IF Has(sent, type) /\ Has(sent[type], periodId)
         THEN writeJson(Put(sent, type,
                [p \in (DOMAIN sent[type]) \ {periodId} |-> sent[type][p]]))
         ELSE writeJson(Put(sent, type,
                Put(IF Has(sent, type) THEN sent[type] ELSE EmptyObject, periodId, ts)))
         : sent \in {readJson(item, EmptyObject)} })

\* The item of SENT_KEY after markSent(type, periodId) at time ts.
markSent(item, type, periodId, ts) ==
  Only({ Only({ writeJson(Put(s1, type, Put(s1[type], periodId, ts)))
                : s1 \in {IF ~Has(sent, type) THEN Put(sent, type, EmptyObject) ELSE sent} })
         : sent \in {readJson(item, EmptyObject)} })

\* The two halves of markSent(type, periodId): the object readJson returns,
\* and the item written for an object read earlier, at time ts.
markSentRead(item) == readJson(item, EmptyObject)

markSentWrite(sent, type, periodId, ts) ==
  Only({ writeJson(Put(s1, type, Put(s1[type], periodId, ts)))
         : s1 \in {IF ~Has(sent, type) THEN Put(sent, type, EmptyObject) ELSE sent} })

\* ------------------------------------------------------------------------
\* ratings.js: daily storage
\* ------------------------------------------------------------------------
\* A variant of saveRatingForToday that replaces the object of the day.
saveRatingForToday_replace(item, now, ts, categoryKey, value) ==
  Only({ writeJson(Put(store, tdy, Put(Put(EmptyObject, categoryKey, value), "_updatedAt", ts)))
         : tdy \in {isoLocal(now)}, store \in {readJson(item, EmptyObject)} })

\* The item of STORAGE_KEY after saveRatingForToday(categoryKey, value) on the
\* date now at time ts.
saveRatingForToday(item, now, ts, categoryKey, value) ==
  Only({ Only({ Only({ writeJson(Put(s1, tdy, day2))
                       : day2 \in {Put(Put(s1[tdy], categoryKey, value), "_updatedAt", ts)} })
                : s1 \in {IF ~Has(store, tdy) THEN Put(store, tdy, EmptyObject) ELSE store} })
         : tdy \in {isoLocal(now)}, store \in {readJson(item, EmptyObject)} })

\* A variant of getRatingsInRange whose loop stops before the end date.
getRatingsInRange_open(item, startDate, endDate) ==
  Only({ [i \in 1..(endTime - startTime) |->
            Only({ [ date   |-> dayKey,
                     values |-> IF Has(store, dayKey) THEN store[dayKey] ELSE EmptyObject ]
                   : dayKey \in {isoLocal(DateOfDayNumber(startTime + i - 1))} })]
         : store     \in {readJson(item, EmptyObject)},
           startTime \in {getTime(cloneDate(startDate))},
           endTime   \in {getTime(cloneDate(endDate))} })

\* The rows pushed by the while loop: the k-th pass (from 0) sees cur, the
\* start date after k times cur.setDate(cur.getDate() + 1), and the loop runs
\* while cur.getTime() <= end.getTime().
getRatingsInRange(item, startDate, endDate) ==
  Only({ [i \in 1..(endTime - startTime + 1) |->
            Only({ [ date   |-> dayKey,
                     values |-> IF Has(store, dayKey) THEN store[dayKey] ELSE EmptyObject ]
                   : dayKey \in {isoLocal(DateOfDayNumber(startTime + i - 1))} })]
         : store     \in {readJson(item, EmptyObject)},
           startTime \in {getTime(cloneDate(startDate))},
           endTime   \in {getTime(cloneDate(endDate))} })

\* ------------------------------------------------------------------------
\* ratings.js: the storage functions for any text of the item.  Beside the
\* kinds "none" and "object" an item is "unparsable" (JSON.parse throws, and
\* readJson returns the fallback) or the JSON text of null, of a number, of a
\* string or of an array; readJson returns such a value as it is.  A property
\* read of null throws a TypeError, a property read of a number, string or
\* array yields undefined, a property write to a number or string throws in
\* strict mode, and JSON.stringify of an array leaves out its named
\* properties.  Each operator yields whether the call threw, what it
\* returned and the item afterwards.
\* ------------------------------------------------------------------------
ForeignKinds == {"null", "number", "string", "array"}

alreadySentAny(item, type, periodId) ==
  IF item.kind = "null" THEN [threw |-> TRUE, item |-> item]
  ELSE IF item.kind \in ForeignKinds THEN [threw |-> FALSE, item |-> item, result |-> FALSE]
  ELSE [threw |-> FALSE, item |-> item, result |-> alreadySent(item, type, periodId)]

markSentAny(item, type, periodId, ts) ==
  IF item.kind \in {"null", "number", "string"} THEN [threw |-> TRUE, item |-> item]
  ELSE IF item.kind = "array" THEN [threw |-> FALSE, item |-> item]
  ELSE [threw |-> FALSE, item |-> markSent(item, type, periodId, ts)]

saveRatingForTodayAny(item, now, ts, categoryKey, value) ==
  IF item.kind \in {"null", "number", "string"} THEN [threw |-> TRUE, item |-> item]
  ELSE IF item.kind = "array" THEN [threw |-> FALSE, item |-> item]
  ELSE [threw |-> FALSE, item |-> saveRatingForToday(item, now, ts, categoryKey, value)]

getRatingsInRangeAny(item, startDate, endDate) ==
  IF item.kind = "null" /\ getTime(startDate) <= getTime(endDate)
  THEN [threw |-> TRUE, item |-> item]
  ELSE [ threw  |-> FALSE, item |-> item,
         result |-> getRatingsInRange(IF item.kind \in ForeignKinds THEN NoItem ELSE item,
                                      startDate, endDate) ]

\* ------------------------------------------------------------------------
\* ratings.js: averages.  A quotient is the reduced fraction [n, d] of tenths
\* n over d; null is [n |-> 0, d |-> 0].
\* ------------------------------------------------------------------------
Null == [n |-> 0, d |-> 0]

RECURSIVE Gcd(_, _)
Gcd(a0, b0) ==
  Only({ IF b = 0 THEN a ELSE Gcd(b, a % b) : a \in {a0}, b \in {b0} })

Quotient(n, d) == Only({ [n |-> n \div g, d |-> d \div g] : g \in {Gcd(n, d)} })

\* typeof v === "number" && v >= 1 && v <= 5
ValidScore(values, key) ==
  Has(values, key) /\ values[key] >= 10 /\ values[key] <= 50

\* The sum of xs[lo..hi], halving the range.
RECURSIVE SumSeq(_, _, _)
SumSeq(xs, lo, hi) ==
  IF lo > hi THEN 0
  ELSE IF lo = hi THEN xs[lo]
  ELSE Only({ SumSeq(xs, lo, mid) + SumSeq(xs, mid + 1, hi) : mid \in {(lo + hi) \div 2} })

\* sums[key] and counts[key] after the rows.forEach loop.
SumOver(rows, key) ==
  Only({ SumSeq(xs, 1, Len(xs))
         : xs \in {[i \in 1..Len(rows) |->
                     IF ValidScore(rows[i].values, key) THEN rows[i].values[key] ELSE 0]} })

\* A variant of CountOver that counts every row.
CountOver_rows(rows, key) == Len(rows)

CountOver(rows, key) ==
  Only({ SumSeq(xs, 1, Len(xs))
         : xs \in {[i \in 1..Len(rows) |->
                     IF ValidScore(rows[i].values, key) THEN 1 ELSE 0]} })

calcAverages(rows0) ==
  Only({ Only({ [ avg    |-> [c \in CatIdx |->
                               IF counts[c] # 0 THEN Quotient(sums[c], counts[c]) ELSE Null],
                  counts |-> counts ]
                : sums   \in {[c \in CatIdx |-> SumOver(rows, CATEGORIES[c].key)]},
                  counts \in {[c \in CatIdx |-> CountOver(rows, CATEGORIES[c].key)]} })
         : rows \in {rows0} })

\* a.toFixed(2): the nearest number of hundredths, the larger of two equally
\* near ones (exact for the quotients of the model, whose ties are dyadic).
toFixed2(a) ==
  Only({ DigitStr(h \div 100) \o <<".">> \o pad2(h % 100)
         : h \in {(20 * a.n + a.d) \div (2 * a.d)} })

\* String(v) of a number of tenths v >= 0.
NumberToString(v0) ==
  Only({ DigitStr(v \div 10) \o (IF v % 10 = 0 THEN <<>> ELSE <<".", Digits[(v % 10) + 1]>>)
         : v \in {v0} })

\* s.padEnd(13, " ")
padEnd13(s) == [padEnd |-> 13, s |-> s]

\* ------------------------------------------------------------------------
\* ratings.js: report composition.  The body is the sequence of its lines,
\* each line the sequence of the pieces the code concatenates.
\* ------------------------------------------------------------------------
AverageLine(stats, c) ==
  << "- ", CATEGORIES[c].label, ": ",
     IF stats.avg[c] = Null THEN <<"N", "/", "A">> ELSE toFixed2(stats.avg[c]),
     " (days rated: ", DigitStr(stats.counts[c]), ")" >>

TableRow(r) ==
  << r.date, " | ",
     [c \in CatIdx |->
        padEnd13(IF Has(r.values, CATEGORIES[c].key)
                 THEN NumberToString(r.values[CATEGORIES[c].key])
                 ELSE <<"-">>)] >>

buildPlainTextReport(item, title, startDate, endDate) ==
  Only({ Only({
      << <<title>>,
         <<"Period: ", isoLocal(startDate), " to ", isoLocal(endDate)>>,
         <<"">>,
         <<"Averages (1-5):">> >>
      \o [c \in CatIdx |-> AverageLine(stats, c)]
      \o << <<"">>,
            <<"Daily entries:">>,
            <<"Date       | ", [c \in CatIdx |-> padEnd13(CATEGORIES[c].label)]>>,
            <<"-----------|-", [c \in CatIdx |-> "-------------"]>> >>
      \o [i \in 1..Len(rows) |-> TableRow(rows[i])]
      \o << <<"">>,
            <<"Generated from your Rezume portfolio ratings page.">> >>
      : stats \in {calcAverages(rows)} })
      : rows \in {getRatingsInRange(item, startDate, endDate)} })

\* ------------------------------------------------------------------------
\* ratings.js: report scheduling
\* ------------------------------------------------------------------------
buildWeeklyReport(item, now) ==
  Only({ Only({ Only({
      [ type     |-> "weekly",
        periodId |-> periodId,
        subject  |-> <<"Weekly Work Ratings (", isoLocal(start), " to ", isoLocal(end), ")">>,
        body     |-> buildPlainTextReport(item, "WEEKLY WORK RATINGS REPORT", start, end) ]
      : periodId \in {isoLocal(start) \o <<"_">> \o isoLocal(end)} })
      : start \in {weekStartMonday(end)} })
      : end \in {cloneDate(now)} })

\* A variant of buildMonthlyReport whose body names the day it was built on.
buildMonthlyReport_dated(item, now) ==
  Only({ Only({
      [ type     |-> "monthly",
        periodId |-> periodId,
        subject  |-> <<"Monthly Work Ratings (", periodId, ")">>,
        body     |-> buildPlainTextReport(item, "MONTHLY WORK RATINGS REPORT", start, end)
                       \o << <<"Generated on ", isoLocal(now)>> >> ]
      : periodId \in {slice0(isoLocal(start), 7)} })
      : start \in {monthStart(now)}, end \in {monthEnd(now)} })

\* A variant of buildMonthlyReport whose periodId is the month without the
\* year.
buildMonthlyReport_month(item, now) ==
  Only({ Only({
      [ type     |-> "monthly",
        periodId |-> periodId,
        subject  |-> <<"Monthly Work Ratings (", periodId, ")">>,
        body     |-> buildPlainTextReport(item, "MONTHLY WORK RATINGS REPORT", start, end) ]
      : periodId \in {pad2(now.m + 1)} })
      : start \in {monthStart(now)}, end \in {monthEnd(now)} })

buildMonthlyReport(item, now) ==
  Only({ Only({
      [ type     |-> "monthly",
        periodId |-> periodId,
        subject  |-> <<"Monthly Work Ratings (", periodId, ")">>,
        body     |-> buildPlainTextReport(item, "MONTHLY WORK RATINGS REPORT", start, end) ]
      : periodId \in {slice0(isoLocal(start), 7)} })
      : start \in {monthStart(now)}, end \in {monthEnd(now)} })

buildYearlyReport(item, now) ==
  Only({
      [ type     |-> "yearly",
        periodId |-> periodId,
        subject  |-> <<"Yearly Work Ratings (", periodId, ")">>,
        body     |-> buildPlainTextReport(item, "YEARLY WORK RATINGS REPORT", start, end) ]
      : start \in {yearStart(now)}, end \in {yearEnd(now)},
        periodId \in {DigitStr(now.y)} })

\* The reports pushed to due before the filter, in the order of the pushes.
DueBeforeFilter(storeItem, now) ==
     (IF isSunday(now)   THEN <<buildWeeklyReport(storeItem, now)>>  ELSE <<>>)
  \o (IF isMonthEnd(now) THEN <<buildMonthlyReport(storeItem, now)>> ELSE <<>>)
  \o (IF isYearEnd(now)  THEN <<buildYearlyReport(storeItem, now)>>  ELSE <<>>)

\* A variant of getDueReports that returns at most one report.
getDueReports_first(sentItem0, storeItem0, now0) ==
  Only({ IF Len(due) <= 1 THEN due ELSE <<due[1]>>
         : due \in {SelectSeq(DueBeforeFilter(storeItem0, now0),
                           LAMBDA r : ~alreadySent(sentItem0, r.type, r.periodId))} })

\* getDueReports(now), reading the items sentItem (SENT_KEY) and storeItem
\* (STORAGE_KEY).
getDueReports(sentItem0, storeItem0, now0) ==
  Only({ SelectSeq(DueBeforeFilter(storeItem, now),
                   LAMBDA r : ~alreadySent(sentItem, r.type, r.periodId))
         : sentItem \in {sentItem0}, storeItem \in {storeItem0}, now \in {now0} })

\* A variant of getDueReports that marks what it returns.
RECURSIVE MarkAll(_, _)
MarkAll(item, due) ==
  IF due = <<>> THEN item
  ELSE MarkAll(markSent(item, Head(due).type, Head(due).periodId, 0), Tail(due))

getDueReportsStorage_marks(sentItem, storeItem, now) ==
  [ sent  |-> MarkAll(sentItem, getDueReports(sentItem, storeItem, now)),
    store |-> storeItem ]

\* localStorage after getDueReports(now) returned: the function writes nothing.
getDueReportsStorage(sentItem, storeItem, now) ==
  [sent |-> sentItem, store |-> storeItem]

\* ------------------------------------------------------------------------
\* ratings.js: sending
\* ------------------------------------------------------------------------
\* Variants of sendReport: one that opens the draft without marking, one
\* that consults the ledger first.
sendReport_nomark(mode, sentItem, report, ts) ==
  IF mode = "api"
  THEN [sent |-> sentItem, drafts |-> <<>>, fetches |-> <<report>>, marks |-> <<>>]
  ELSE [sent |-> sentItem, drafts |-> <<report>>, fetches |-> <<>>, marks |-> <<>>]

sendReport_checked(mode, sentItem, report, ts) ==
  IF alreadySent(sentItem, report.type, report.periodId)
  THEN [sent |-> sentItem, drafts |-> <<>>, fetches |-> <<>>, marks |-> <<>>]
  ELSE IF mode = "api"
  THEN [sent |-> sentItem, drafts |-> <<>>, fetches |-> <<report>>, marks |-> <<>>]
  ELSE [ sent    |-> markSent(sentItem, report.type, report.periodId, ts),
         drafts  |-> <<report>>,
         fetches |-> <<>>,
         marks   |-> <<report>> ]

\* The synchronous part of sendReport(report) at time ts: the item of
\* SENT_KEY afterwards, the mail drafts opened, the requests started and the
\* reports markSent was called for.
sendReport(mode, sentItem, report, ts) ==
  IF mode = "api"
  THEN [sent |-> sentItem, drafts |-> <<>>, fetches |-> <<report>>, marks |-> <<>>]
  ELSE [ sent    |-> markSent(sentItem, report.type, report.periodId, ts),
         drafts  |-> <<report>>,
         fetches |-> <<>>,
         marks   |-> <<report>> ]

\* A variant of the settling that marks whatever the outcome.
sendReportSettled_always(sentItem, report, ts, ok) ==
  [ sent  |-> markSent(sentItem, report.type, report.periodId, ts),
    marks |-> IF ok THEN <<report>> ELSE <<>> ]

\* The item of SENT_KEY once the promise of sendViaApi(report) has settled:
\* the then-callback of sendReport runs only when it is fulfilled.
sendReportSettled(sentItem, report, ts, ok) ==
  IF ok
  THEN [sent |-> markSent(sentItem, report.type, report.periodId, ts), marks |-> <<report>>]
  ELSE [sent |-> sentItem, marks |-> <<>>]

\* ------------------------------------------------------------------------
\* ratings.js: reminders.  A card is [id, report, disabled]; disabled is the
\* state of its two buttons.
\* ------------------------------------------------------------------------
FreshId(cs) ==
  Only({ CHOOSE i \in 1..(Len(cs) + 1) :
           i \notin used /\ \A j \in 1..(Len(cs) + 1) : j \notin used => i <= j
         : used \in {{cs[i].id : i \in 1..Len(cs)}} })

renderReminder(cs0, report) ==
  Only({ Append(cs, [id |-> FreshId(cs), report |-> report, disabled |-> FALSE])
         : cs \in {cs0} })

RECURSIVE renderAll(_, _)
renderAll(cs0, due0) ==
  Only({ IF due = <<>> THEN cs
         ELSE renderAll(renderReminder(cs, Head(due)), Tail(due))
         : cs \in {cs0}, due \in {due0} })

RemoveAt(seq, i) == SubSeq(seq, 1, i - 1) \o SubSeq(seq, i + 1, Len(seq))

\* card.parentNode && card.parentNode.removeChild(card)
removeCard(cs, id) == SelectSeq(cs, LAMBDA c : c.id # id)

setDisabled(cs, id, b) ==
  [i \in 1..Len(cs) |-> IF cs[i].id = id THEN [cs[i] EXCEPT !.disabled = b] ELSE cs[i]]

\* checkDueReports() in a page showing the cards cs with the requests rs in
\* flight: the cards and requests afterwards.  A request is [report, card]:
\* card is the id of the card whose button started it, 0 for an automatic one.
checkDueReports(mode, auto, sentItem, storeItem, now, cs, rs) ==
  Only({ IF Len(due) = 0 THEN [cards |-> cs, reqs |-> rs]
         ELSE IF mode = "api" /\ auto
         THEN [ cards |-> cs,
                reqs  |-> rs \o [i \in 1..Len(due) |->
                                   [ report |-> sendReport(mode, sentItem, due[i], 0).fetches[1],
                                     card   |-> 0 ]] ]
         ELSE [cards |-> renderAll(cs, due), reqs |-> rs]
         : due \in {getDueReports(sentItem, storeItem, now)} })

\* ------------------------------------------------------------------------
\* The rating inputs of the page
\* ------------------------------------------------------------------------
\* The value attributes an input may carry, and Number(input.value).
InputValues == {"3", "6", "abc"}

NumberOf(text) ==
  CASE text = "3" -> [finite |-> TRUE, v |-> 30]
    [] text = "6" -> [finite |-> TRUE, v |-> 60]
    [] OTHER      -> [finite |-> FALSE, v |-> 0]

\* What the user has checked in the form when submitting: per category the
\* value of the checked input, "none" when no input of the group is checked.
Selections ==
  { [c \in CatIdx |-> "3"],
    [c \in CatIdx |-> IF c = 1 THEN "6" ELSE "3"],
    [c \in CatIdx |-> IF c = 2 THEN "none" ELSE "3"] }

\* ------------------------------------------------------------------------
\* Daily Ratings Tracker (the second script): store and form
\* ------------------------------------------------------------------------
\* isMonthEnd(d) of the tracker.
isMonthEndTracker(d0) ==
  Only({ Only({ d.d = last : last \in {NewDate(d.y, d.m + 1, 0).d} }) : d \in {d0} })

\* getWeekRangeEndingOn(d) of the tracker.
getWeekRangeEndingOn(d0) ==
  Only({ Only({ Only({ [start |-> start, end |-> setDate(start, start.d + 6)]
                       : start \in {setDate(d, d.d - dayIndexMonday0)} })
                : dayIndexMonday0 \in {(getDay(d) + 6) % 7} })
         : d \in {d0} })

NullRating == [null |-> TRUE, v |-> 0]

\* clampRating(n) of a value whose Number() is num.
clampRating(num) ==
  IF ~num.finite THEN NullRating
  ELSE Only({ IF n < 10 \/ n > 50 THEN NullRating ELSE [null |-> FALSE, v |-> n]
              : n \in {((num.v + 5) \div 10) * 10} })

\* loadStore() reading the item of the tracker's STORAGE_KEY.
loadStore(item) ==
  Only({ IF Has(store, "entries") THEN store ELSE Put(store, "entries", EmptyObject)
         : store \in {readJson(item, EmptyObject)} })

saveStore(store) == writeJson(store)

\* toISODate(d) of the tracker.
toISODate(d0) ==
  Only({ DigitStr(d.y) \o <<"-">> \o pad2(d.m + 1) \o <<"-">> \o pad2(d.d) : d \in {d0} })

\* The code unit of a character of a date key.
CharCode(ch) == IF ch = "-" THEN 45 ELSE 47 + (CHOOSE i \in 1..10 : Digits[i] = ch)

\* a < b and a <= b of two strings.
RECURSIVE StrLess(_, _)
StrLess(a, b) ==
  IF b = <<>> THEN FALSE
  ELSE IF a = <<>> THEN TRUE
  ELSE IF a[1] = b[1] THEN StrLess(Tail(a), Tail(b))
  ELSE CharCode(a[1]) < CharCode(b[1])

StrLeq(a, b) == a = b \/ StrLess(a, b)

\* rows.sort by date, ascending, of rows with different dates.
RECURSIVE SortByDate(_)
SortByDate(rows) ==
  IF rows = {} THEN <<>>
  ELSE Only({ <<lo>> \o SortByDate(rows \ {lo})
              : lo \in {CHOOSE r \in rows : \A o \in rows : StrLeq(r.date, o.date)} })

\* listEntriesInRange(store, startDate, endDate): the stored entries whose
\* key lies between the two ISO dates, sorted by date.
listEntriesInRange(store, startDate, endDate) ==
  Only({ SortByDate({ [date |-> iso, data |-> entries[iso]]
                      : iso \in {k \in DOMAIN entries :
                                   StrLeq(startISO, k) /\ StrLeq(k, endISO)} })
         : startISO \in {toISODate(startDate)},
           endISO   \in {toISODate(endDate)},
           entries  \in {IF Has(store, "entries") THEN store["entries"] ELSE EmptyObject} })

\* Number(x) of a quotient or null: Number(null) is 0.
NumberOfQuotient(q) == IF q = Null THEN [n |-> 0, d |-> 1] ELSE q

\* The sum of the first k numbers of a sequence of quotients.
RECURSIVE SumQuotients(_, _)
SumQuotients(numbers, k) ==
  IF k = 0 THEN [n |-> 0, d |-> 1]
  ELSE Only({ Quotient(acc.n * x.d + x.n * acc.d, acc.d * x.d)
              : acc \in {SumQuotients(numbers, k - 1)},
                x   \in {NumberOfQuotient(numbers[k])} })

\* mean(numbers) of a sequence of quotients and nulls: each Number(...) is
\* finite, so each element is added and counted.
mean(numbers) ==
  Only({ IF count # 0 THEN Quotient(sum.n, sum.d * count) ELSE Null
         : sum \in {SumQuotients(numbers, Len(numbers))}, count \in {Len(numbers)} })

\* Number(data[key]): NaN for a missing property.
NumberOfProperty(data, key) ==
  IF Has(data, key) THEN [finite |-> TRUE, v |-> data[key]] ELSE [finite |-> FALSE, v |-> 0]

\* ok after the loop over the categories, for the data of one row.
AllCategoriesPresent(data) ==
  \A c \in CatIdx : ~clampRating(NumberOfProperty(data, CATEGORIES[c].key)).null

\* A variant of computeAveragesForEntries that counts every row.
computeAveragesForEntries_rows(entryRows0) ==
  Only({ Only({ Only({ Only({
      [ daysCount |-> count, perCategory |-> avgs, overall |-> mean(avgs) ]
      : avgs \in {[c \in CatIdx |->
                     IF count # 0 THEN Quotient(sums[c], count) ELSE Null]} })
      : sums \in {[c \in CatIdx |->
                     Only({ SumSeq(xs, 1, Len(xs))
                            : xs \in {[i \in 1..Len(entryRows) |->
                                         IF ok[i] THEN entryRows[i].data[CATEGORIES[c].key]
                                         ELSE 0]} })]},
        count \in {Len(entryRows)} })
      : ok \in {[i \in 1..Len(entryRows) |-> AllCategoriesPresent(entryRows[i].data)]} })
      : entryRows \in {entryRows0} })

\* computeAveragesForEntries(entryRows): sums and count after the loop over
\* the rows, avgs after the loop over the categories, overall their mean.
computeAveragesForEntries(entryRows0) ==
  Only({ Only({ Only({ Only({
      [ daysCount |-> count, perCategory |-> avgs, overall |-> mean(avgs) ]
      : avgs \in {[c \in CatIdx |->
                     IF count # 0 THEN Quotient(sums[c], count) ELSE Null]} })
      : sums \in {[c \in CatIdx |->
                     Only({ SumSeq(xs, 1, Len(xs))
                            : xs \in {[i \in 1..Len(entryRows) |->
                                         IF ok[i] THEN entryRows[i].data[CATEGORIES[c].key]
                                         ELSE 0]} })]},
        count \in {Only({ SumSeq(xs, 1, Len(xs))
                          : xs \in {[i \in 1..Len(entryRows) |->
                                       IF ok[i] THEN 1 ELSE 0]} })} })
      : ok \in {[i \in 1..Len(entryRows) |-> AllCategoriesPresent(entryRows[i].data)]} })
      : entryRows \in {entryRows0} })

\* loadStore() for any text of the item: a value that is no object is replaced
\* by {}; an array is an object and gets the property entries.
loadStoreAny(item) ==
  IF item.kind \in {"none", "object"} THEN loadStore(item)
  ELSE Put(EmptyObject, "entries", EmptyObject)

\* getSelectedRatings(form): null when a group has no checked input or a
\* checked value is no rating.
getSelectedRatings(sel) ==
  IF \E c \in CatIdx : sel[c] = "none" \/ clampRating(NumberOf(sel[c])).null
  THEN [null |-> TRUE, out |-> EmptyObject]
  ELSE [ null |-> FALSE,
         out  |-> [k \in {CATEGORIES[c].key : c \in CatIdx} |->
                     clampRating(NumberOf(sel[Only({c \in CatIdx : CATEGORIES[c].key = k})])).v] ]

\* The item of the tracker's STORAGE_KEY after the submit handler stored the
\* selection out for the date now at time ts.
submitStore(item, now, ts, out) ==
  Only({ saveStore(Put(storeNow, "entries",
                       Put(storeNow["entries"], isoLocal(now), Put(out, "savedAt", ts))))
         : storeNow \in {loadStore(item)} })

\* ------------------------------------------------------------------------
\* State
\* ------------------------------------------------------------------------
Tabs == {1, 2}

MailModes == {"mailto", "api"}

\* The first day of a behaviour: Saturday 2024-03-23; the next day is a
\* Sunday, the last day of the week 2024-03-18 .. 2024-03-24.
FirstDay == [y |-> 2024, m |-> 2, d |-> 23]

VARIABLES
  today,       \* the local calendar date new Date() gives
  clock,       \* the time new Date().toISOString() gives
  lsSent,      \* localStorage item of SENT_KEY (ratings.js)
  lsRatings,   \* localStorage item of STORAGE_KEY (ratings.js)
  lsEntries,   \* localStorage item of STORAGE_KEY (Daily Ratings Tracker)
  mailMode,    \* CONFIG.mailMode
  autoSend,    \* CONFIG.autoSendIfPossible
  cards,       \* per tab: the reminder cards in the host element
  reqs,        \* per tab: the API requests in flight
  loaded,      \* per tab: whether the page is open
  saves,       \* how many times the user saved ratings (a change or a submit)
  days,        \* how many times midnight passed
  dispatched,  \* history: per (type, periodId), the transports completed
  marked,      \* history: per (type, periodId), the markSent calls performed
  lastEval,    \* history: the last direct getDueReports call and what it returned
  cleared      \* history: whether the tracker's history was cleared

vars == << today, clock, lsSent, lsRatings, lsEntries, mailMode, autoSend, cards,
           reqs, loaded, saves, days, dispatched, marked, lastEval, cleared >>

Key(r) == <<r.type, r.periodId>>

\* The (type, periodId) pairs of the ledger held by item.
LedgerKeys(item) ==
  Only({ UNION {{<<t, p>> : p \in DOMAIN sent[t]} : t \in DOMAIN sent}
         : sent \in {readJson(item, EmptyObject)} })

\* The timestamp the ledger held by item stores for the pair k.
LedgerStamp(item, k) == readJson(item, EmptyObject)[k[1]][k[2]]

\* tally[k], 0 when k was never counted.
Count(tally, k) == IF Has(tally, k) THEN tally[k] ELSE 0

\* tally with one more for the (type, periodId) of each report of rs.
RECURSIVE Tally(_, _)
Tally(d0, rs0) ==
  Only({ IF rs = <<>> THEN d
         ELSE Only({ Tally(Put(d, k, Count(d, k) + 1), Tail(rs)) : k \in {Key(Head(rs))} })
         : d \in {d0}, rs \in {rs0} })

NoEval ==
  [ calls |-> 0, now |-> FirstDay, sent |-> NoItem, store |-> NoItem,
    marked |-> EmptyObject, saves |-> 0, due |-> <<>> ]

\* How many markSent calls tally counts.
RECURSIVE TotalOf(_)
TotalOf(tally) ==
  IF DOMAIN tally = {} THEN 0
  ELSE Only({ tally[k] + TotalOf([x \in (DOMAIN tally) \ {k} |-> tally[x]])
              : k \in {CHOOSE x \in DOMAIN tally : TRUE} })

Init ==
  /\ today = FirstDay
  /\ clock = 0
  /\ lsSent = NoItem
  /\ lsRatings = NoItem
  /\ lsEntries = NoItem
  /\ mailMode \in MailModes
  /\ autoSend \in BOOLEAN
  /\ cards = [t \in Tabs |-> <<>>]
  /\ reqs = [t \in Tabs |-> <<>>]
  /\ loaded = [t \in Tabs |-> FALSE]
  /\ saves = 0
  /\ days = 0
  /\ dispatched = EmptyObject
  /\ marked = EmptyObject
  /\ lastEval = NoEval
  /\ cleared = FALSE

\* ------------------------------------------------------------------------
\* Actions
\* ------------------------------------------------------------------------
\* Time passes within the day.
Tick ==
  /\ clock < MaxClock
  /\ clock' = clock + 1
  /\ UNCHANGED << today, lsSent, lsRatings, lsEntries, mailMode, autoSend, cards,
                  reqs, loaded, saves, days, dispatched, marked, lastEval,
                  cleared >>

\* Midnight passes.
Midnight ==
  /\ days < MaxDays
  /\ days' = days + 1
  /\ today' = setDate(today, today.d + 1)
  /\ UNCHANGED << clock, lsSent, lsRatings, lsEntries, mailMode, autoSend, cards,
                  reqs, loaded, saves, dispatched, marked, lastEval,
                  cleared >>

\* DOMContentLoaded in tab t: a fresh document, then checkDueReports().
PageLoad(t) ==
  \E st \in {getDueReportsStorage(lsSent, lsRatings, today)} :
  \E chk \in {checkDueReports(mailMode, autoSend, lsSent, lsRatings, today, <<>>, <<>>)} :
      /\ Len(chk.cards) <= MaxCards
      /\ Len(chk.reqs) <= MaxReqs
      /\ loaded' = [loaded EXCEPT ![t] = TRUE]
      /\ lsSent' = st.sent
      /\ lsRatings' = st.store
      /\ cards' = [cards EXCEPT ![t] = chk.cards]
      /\ reqs' = [reqs EXCEPT ![t] = chk.reqs]
      /\ UNCHANGED << today, clock, lsEntries, mailMode, autoSend, saves, days,
                      dispatched, marked, lastEval,
                  cleared >>

\* The change listener of a rating input of category c carrying value text.
RatingChange(t, c, text) ==
  /\ loaded[t]
  /\ saves < MaxSaves
  /\ saves' = saves + 1
  /\ \E num \in {NumberOf(text)} :
       IF ~num.finite
       THEN UNCHANGED << lsSent, lsRatings, cards, reqs >>
       ELSE \E saved \in {saveRatingForToday(lsRatings, today, clock, CATEGORIES[c].key, num.v)} :
            \E st \in {getDueReportsStorage(lsSent, saved, today)} :
            \E chk \in {checkDueReports(mailMode, autoSend, lsSent, saved, today,
                                        cards[t], reqs[t])} :
              /\ Len(chk.cards) <= MaxCards
              /\ Len(chk.reqs) <= MaxReqs
              /\ lsSent' = st.sent
              /\ lsRatings' = st.store
              /\ cards' = [cards EXCEPT ![t] = chk.cards]
              /\ reqs' = [reqs EXCEPT ![t] = chk.reqs]
  /\ UNCHANGED << today, clock, lsEntries, mailMode, autoSend, loaded, days,
                  dispatched, marked, lastEval,
                  cleared >>

\* The click listener of the send button of the i-th card of tab t, with the
\* then-callback that follows at once in mailto mode.
SendClick(t, i) ==
  /\ i \in 1..Len(cards[t])
  /\ ~cards[t][i].disabled
  /\ \E card \in {cards[t][i]} :
     \E snd \in {sendReport(mailMode, lsSent, card.report, clock)} :
      /\ Len(reqs[t]) + Len(snd.fetches) <= MaxReqs
      /\ \A j \in 1..Len(snd.drafts) : Count(dispatched, Key(snd.drafts[j])) < MaxDispatch
      /\ lsSent' = snd.sent
      /\ dispatched' = Tally(dispatched, snd.drafts)
      /\ marked' = Tally(marked, snd.marks)
      /\ reqs' = [reqs EXCEPT ![t] =
                    @ \o [j \in 1..Len(snd.fetches) |->
                            [report |-> snd.fetches[j], card |-> card.id]]]
      /\ cards' = [cards EXCEPT ![t] =
                    IF Len(snd.fetches) > 0
                    THEN setDisabled(@, card.id, TRUE)
                    ELSE removeCard(@, card.id)]
  /\ UNCHANGED << today, clock, lsRatings, lsEntries, mailMode, autoSend, loaded,
                  saves, days, lastEval,
                  cleared >>

\* A variant of the dismiss listener that also marks the period as sent.
DismissClick_marks(t, i) ==
  /\ i \in 1..Len(cards[t])
  /\ ~cards[t][i].disabled
  /\ cards' = [cards EXCEPT ![t] = removeCard(@, cards[t][i].id)]
  /\ lsSent' = markSent(lsSent, cards[t][i].report.type, cards[t][i].report.periodId, clock)
  /\ UNCHANGED << today, clock, lsRatings, lsEntries, mailMode, autoSend,
                  reqs, loaded, saves, days, dispatched, marked, lastEval,
                  cleared >>

\* The click listener of the dismiss button of the i-th card of tab t.
DismissClick(t, i) ==
  /\ i \in 1..Len(cards[t])
  /\ ~cards[t][i].disabled
  /\ cards' = [cards EXCEPT ![t] = removeCard(@, cards[t][i].id)]
  /\ UNCHANGED << today, clock, lsSent, lsRatings, lsEntries, mailMode, autoSend,
                  reqs, loaded, saves, days, dispatched, marked, lastEval,
                  cleared >>

\* The j-th request of tab t is answered with a 2xx response.
ApiOk(t, j) ==
  /\ j \in 1..Len(reqs[t])
  /\ \E rq \in {reqs[t][j]} :
     \E res \in {sendReportSettled(lsSent, rq.report, clock, TRUE)} :
      /\ Count(dispatched, Key(rq.report)) < MaxDispatch
      /\ lsSent' = res.sent
      /\ dispatched' = Tally(dispatched, <<rq.report>>)
      /\ marked' = Tally(marked, res.marks)
      /\ reqs' = [reqs EXCEPT ![t] = RemoveAt(@, j)]
      /\ cards' = [cards EXCEPT ![t] = IF rq.card # 0 THEN removeCard(@, rq.card) ELSE @]
  /\ UNCHANGED << today, clock, lsRatings, lsEntries, mailMode, autoSend, loaded,
                  saves, days, lastEval,
                  cleared >>

\* A variant of the failure of a request that leaves the cards as they are.
ApiFail_stuck(t, j) ==
  /\ j \in 1..Len(reqs[t])
  /\ reqs' = [reqs EXCEPT ![t] = RemoveAt(@, j)]
  /\ UNCHANGED << today, clock, lsSent, lsRatings, lsEntries, mailMode, autoSend,
                  cards, loaded, saves, days, dispatched, marked, lastEval, cleared >>

\* The j-th request of tab t fails (network error or non-2xx response).
ApiFail(t, j) ==
  /\ j \in 1..Len(reqs[t])
  /\ \E rq \in {reqs[t][j]} :
     \E res \in {sendReportSettled(lsSent, rq.report, clock, FALSE)} :
     \E cs1 \in {IF rq.card # 0
                 THEN setDisabled(cards[t], rq.card, FALSE)
                 ELSE renderReminder(cards[t], rq.report)} :
      /\ Len(cs1) <= MaxCards
      /\ lsSent' = res.sent
      /\ marked' = Tally(marked, res.marks)
      /\ reqs' = [reqs EXCEPT ![t] = RemoveAt(@, j)]
      /\ cards' = [cards EXCEPT ![t] = cs1]
  /\ UNCHANGED << today, clock, lsRatings, lsEntries, mailMode, autoSend, loaded,
                  saves, days, dispatched, lastEval,
                  cleared >>

\* The submit listener of the tracker's form with the selection sel.  The
\* history table it redraws and the e-mail draft of the day's entry it opens
\* are outside the state kept here; the draft item (DRAFT_KEY) is left out.
Submit(t, sel) ==
  /\ loaded[t]
  /\ saves < MaxSaves
  /\ saves' = saves + 1
  /\ \E selected \in {getSelectedRatings(sel)} :
       IF selected.null
       THEN UNCHANGED lsEntries
       ELSE lsEntries' = submitStore(lsEntries, today, clock, selected.out)
  /\ UNCHANGED << today, clock, lsSent, lsRatings, mailMode, autoSend, cards, reqs,
                  loaded, days, dispatched, marked, lastEval,
                  cleared >>

\* A variant of clearAll that clears the whole of localStorage.
clearAll_everything(t) ==
  /\ loaded[t]
  /\ lsEntries' = NoItem
  /\ lsSent' = NoItem
  /\ lsRatings' = NoItem
  /\ cleared' = TRUE
  /\ UNCHANGED << today, clock, mailMode, autoSend, cards, reqs, loaded, saves,
                  days, dispatched, marked, lastEval >>

\* The click listener of the tracker's clear button, the user confirming.
clearAll(t) ==
  /\ loaded[t]
  /\ lsEntries' = NoItem
  /\ cleared' = TRUE
  /\ UNCHANGED << today, clock, lsSent, lsRatings, mailMode, autoSend, cards, reqs,
                  loaded, saves, days, dispatched, marked, lastEval >>

TabNext(t) ==
  \/ PageLoad(t)
  \/ \E c \in CatIdx, text \in InputValues : RatingChange(t, c, text)
  \/ \E i \in 1..MaxCards : SendClick(t, i)
  \/ \E i \in 1..MaxCards : DismissClick(t, i)
  \/ \E j \in 1..MaxReqs : ApiOk(t, j)
  \/ \E j \in 1..MaxReqs : ApiFail(t, j)
  \/ \E sel \in Selections : Submit(t, sel)
  \/ clearAll(t)

\* One browsing context.
Next ==
  \/ Tick
  \/ Midnight
  \/ TabNext(1)

Spec == Init /\ [][Next]_vars

\* Two tabs of the same origin, sharing localStorage.
NextTabs ==
  \/ Tick
  \/ Midnight
  \/ \E t \in Tabs : TabNext(t)

SpecTabs == Init /\ [][NextTabs]_vars


\* ------------------------------------------------------------------------
\* getDueReports, markSent and saveRatingForToday called directly, on the
\* dates of DueDates
\* ------------------------------------------------------------------------
\* Sundays, month ends, a year end, and days that are none of them.
DueDates ==
  { [y |-> 2023, m |-> 11, d |-> 24],
    [y |-> 2023, m |-> 11, d |-> 31], [y |-> 2024, m |-> 1,  d |-> 28],
    [y |-> 2024, m |-> 1,  d |-> 29], [y |-> 2024, m |-> 2,  d |-> 31],
    [y |-> 2100, m |-> 1,  d |-> 28],
    [y |-> 2023, m |-> 1,  d |-> 28] }

\* A ledger left by earlier periods: the week ending 2023-12-17 and 2023-11.
PastLedger ==
  Only({ markSent(markSent(NoItem, "weekly", buildWeeklyReport(NoItem, past).periodId, 0),
                  "monthly", buildMonthlyReport(NoItem, setDate(past, 0)).periodId, 0)
         : past \in {[y |-> 2023, m |-> 11, d |-> 17]} })

InitDue ==
  /\ today \in DueDates
  /\ clock = 0
  /\ lsSent \in {NoItem, PastLedger}
  /\ lsRatings = NoItem
  /\ lsEntries = NoItem
  /\ mailMode = "mailto"
  /\ autoSend = FALSE
  /\ cards = [t \in Tabs |-> <<>>]
  /\ reqs = [t \in Tabs |-> <<>>]
  /\ loaded = [t \in Tabs |-> FALSE]
  /\ saves = 0
  /\ days = 0
  /\ dispatched = EmptyObject
  /\ marked = EmptyObject
  /\ lastEval = NoEval
  /\ cleared = FALSE

\* getDueReports(new Date())
DueCall ==
  /\ lastEval.calls < MaxCalls
  /\ \E due \in {getDueReports(lsSent, lsRatings, today)} :
     \E st \in {getDueReportsStorage(lsSent, lsRatings, today)} :
      /\ lsSent' = st.sent
      /\ lsRatings' = st.store
      /\ lastEval' = [ calls |-> lastEval.calls + 1, now |-> today, sent |-> lsSent,
                       store |-> lsRatings, marked |-> marked, saves |-> saves,
                       due |-> due ]
  /\ UNCHANGED << today, clock, lsEntries, mailMode, autoSend, cards, reqs,
                  loaded, saves, days, dispatched, marked, cleared >>

\* markSent(r.type, r.periodId) for the i-th report r the last call returned.
DueMark(i) ==
  /\ i \in 1..Len(lastEval.due)
  /\ TotalOf(marked) < MaxMarks
  /\ \E r \in {lastEval.due[i]} :
      /\ lsSent' = markSent(lsSent, r.type, r.periodId, clock)
      /\ marked' = Tally(marked, <<r>>)
  /\ UNCHANGED << today, clock, lsRatings, lsEntries, mailMode, autoSend, cards,
                  reqs, loaded, saves, days, dispatched, lastEval, cleared >>

\* saveRatingForToday(CATEGORIES[c].key, Number(text)), Number(text) finite.
DueSave(c, text) ==
  /\ saves < MaxSaves
  /\ NumberOf(text).finite
  /\ saves' = saves + 1
  /\ lsRatings' = saveRatingForToday(lsRatings, today, clock, CATEGORIES[c].key,
                                     NumberOf(text).v)
  /\ UNCHANGED << today, clock, lsSent, lsEntries, mailMode, autoSend, cards, reqs,
                  loaded, days, dispatched, marked, lastEval, cleared >>

NextDue ==
  \/ Tick
  \/ DueCall
  \/ \E i \in 1..3 : DueMark(i)
  \/ \E c \in CatIdx, text \in InputValues : DueSave(c, text)

SpecDue == InitDue /\ [][NextDue]_vars

\* ------------------------------------------------------------------------
\* Properties
\* ------------------------------------------------------------------------
\* The (type, periodId) pairs of the reports of a list.
KeysOf(due) == {Key(due[i]) : i \in 1..Len(due)}

\* The (type, periodId) pairs of the reports built on the day now.
CandidateKeys(storeItem, now) == KeysOf(DueBeforeFilter(storeItem, now))

\* C1: in one browsing context the transport completes successfully (a mail
\* draft opened, an API call answered OK) at most once for each
\* (type, periodId).
C1_AtMostOnce == \A k \in DOMAIN dispatched : dispatched[k] <= 1

\* The calendar, computed without the Date object: Zeller's congruence for the
\* day of the week and the table of month lengths.
ZellerDay(dt) ==
  LET month == IF dt.m + 1 < 3 THEN dt.m + 13 ELSE dt.m + 1
      year  == IF dt.m + 1 < 3 THEN dt.y - 1 ELSE dt.y
      K     == year % 100
      J     == year \div 100
  IN  (dt.d + ((13 * (month + 1)) \div 5) + K + (K \div 4) + (J \div 4) + 5 * J) % 7

LeapYear(y) == (y % 4 = 0 /\ y % 100 # 0) \/ y % 400 = 0

DaysInMonth(y, m) ==
  IF m = 1 THEN (IF LeapYear(y) THEN 29 ELSE 28)
  ELSE IF m \in {3, 5, 8, 10} THEN 30 ELSE 31

Boundary(now, type) ==
  CASE type = "weekly"  -> ZellerDay(now) = 1
    [] type = "monthly" -> now.d = DaysInMonth(now.y, now.m)
    [] type = "yearly"  -> now.m = 11 /\ now.d = 31

\* The (type, periodId) the report of a type built on the day now carries.
PeriodKey(now, type) ==
  CASE type = "weekly"  ->
         <<type, isoLocal(setDate(now, now.d - 6)) \o <<"_">> \o isoLocal(now)>>
    [] type = "monthly" -> <<type, DigitStr(now.y) \o <<"-">> \o pad2(now.m + 1)>>
    [] type = "yearly"  -> <<type, DigitStr(now.y)>>

\* The (type, periodId) of the reports the claim C2 describes for the day now.
ExpectedDue(sentItem, now) ==
  SelectSeq([i \in 1..3 |-> PeriodKey(now, <<"weekly", "monthly", "yearly">>[i])],
            LAMBDA k : Boundary(now, k[1]) /\ k \notin LedgerKeys(sentItem))

\* C2: getDueReports(now) returns, in the order weekly, monthly, yearly,
\* exactly the reports whose boundary holds on now and whose (type, periodId)
\* is not in the ledger.
C2_DueExactly ==
  lastEval.calls >= 1 =>
    [i \in 1..Len(lastEval.due) |-> Key(lastEval.due[i])]
      = ExpectedDue(lastEval.sent, lastEval.now)

\* A call on Sunday 2023-12-31 that returned the weekly and the yearly report
\* because the monthly one was in the ledger.
C2_Witness ==
  /\ lastEval.calls >= 1
  /\ lastEval.now = [y |-> 2023, m |-> 11, d |-> 31]
  /\ Len(lastEval.due) = 2
  /\ lastEval.due[1].type = "weekly"
  /\ lastEval.due[2].type = "yearly"
  /\ \E k \in LedgerKeys(lastEval.sent) : k[1] = "monthly" /\ Count(lastEval.marked, k) >= 1

\* C3: once markSent(type, periodId) has been performed, no later
\* getDueReports call returns a report with that (type, periodId).
C3_NeverAgain ==
  lastEval.calls >= 1 =>
    \A i \in 1..Len(lastEval.due) : Count(lastEval.marked, Key(lastEval.due[i])) = 0

\* A call made on a day for which a report had been marked before the call.
C3_Witness ==
  /\ lastEval.calls >= 1
  /\ \E k \in CandidateKeys(lastEval.store, lastEval.now) : Count(lastEval.marked, k) >= 1

\* C4: on a Sunday that is Dec 31, with an empty ledger getDueReports returns
\* the weekly, the monthly and the yearly report, with three different
\* (type, periodId); once all three are marked it returns the empty list.
C4_YearEndSunday ==
  (lastEval.calls >= 1 /\ isSunday(lastEval.now) /\ isYearEnd(lastEval.now)) =>
    /\ LedgerKeys(lastEval.sent) = {} =>
         /\ Len(lastEval.due) = 3
         /\ lastEval.due[1].type = "weekly"
         /\ lastEval.due[2].type = "monthly"
         /\ lastEval.due[3].type = "yearly"
         /\ Cardinality(KeysOf(lastEval.due)) = 3
    /\ (\A type \in {"weekly", "monthly", "yearly"} :
          Count(lastEval.marked, PeriodKey(lastEval.now, type)) >= 1)
         => lastEval.due = <<>>

\* The second call on Sunday 2023-12-31, after the three reports the first
\* call returned were marked, the ledger holding nothing else.
C4_Witness ==
  /\ lastEval.calls >= 2
  /\ isSunday(lastEval.now) /\ isYearEnd(lastEval.now)
  /\ Cardinality(LedgerKeys(lastEval.sent)) = 3
  /\ \A type \in {"weekly", "monthly", "yearly"} :
       Count(lastEval.marked, PeriodKey(lastEval.now, type)) = 1
  /\ lastEval.due = <<>>

\* C5: in api mode a failed transport does not call markSent: the ledger is
\* unchanged and the report is still returned by getDueReports on the same day.
C5_FailureKeepsDue ==
  [][ \A j \in 1..MaxReqs :
        ApiFail(1, j) =>
          /\ lsSent' = lsSent
          /\ marked' = marked
          /\ \A k \in {Key(reqs[1][j].report)} :
               (k \notin LedgerKeys(lsSent) /\ k \in CandidateKeys(lsRatings, today))
                 => k \in KeysOf(getDueReports(lsSent', lsRatings', today')) ]_vars

\* With automatic sending a card is shown only after a failure: one is shown
\* for a report that is due, and the ledger is empty.
C5_Witness ==
  /\ mailMode = "api"
  /\ autoSend
  /\ LedgerKeys(lsSent) = {}
  /\ Len(cards[1]) >= 1
  /\ Key(cards[1][1].report) \in KeysOf(getDueReports(lsSent, lsRatings, today))

\* C6: in mailto mode sendReport opens the draft and calls markSent in the
\* same step: afterwards the (type, periodId) is in the ledger.
C6_MailtoMarks ==
  [][ \A i \in 1..MaxCards :
        (SendClick(1, i) /\ mailMode = "mailto") =>
          \A k \in {Key(cards[1][i].report)} :
            /\ k \in LedgerKeys(lsSent')
            /\ Count(marked', k) = Count(marked, k) + 1
            /\ Count(dispatched', k) = Count(dispatched, k) + 1
            /\ reqs' = reqs ]_vars

\* A draft was opened and its period is in the ledger.
C6_Witness ==
  /\ mailMode = "mailto"
  /\ \E k \in LedgerKeys(lsSent) : Count(dispatched, k) = 1 /\ Count(marked, k) = 1

\* C7: nothing locks the ledger between tabs: a tab holding a card for a
\* period sends it even when another tab has marked the period meanwhile, so
\* two tabs that both found the report due both dispatch it.
C7_NoLocking ==
  [][ \A t \in Tabs : \A i \in 1..MaxCards :
        (SendClick(t, i) /\ mailMode = "mailto") =>
          \A k \in {Key(cards[t][i].report)} :
            k \in LedgerKeys(lsSent) => Count(dispatched', k) = Count(dispatched, k) + 1 ]_vars

\* Both tabs open, no rating changed, and a period dispatched twice: each tab
\* rendered its card before the other marked the period.
C7_Witness ==
  /\ mailMode = "mailto"
  /\ saves = 0
  /\ loaded[1] /\ loaded[2]
  /\ \E k \in LedgerKeys(lsSent) : Count(dispatched, k) = 2 /\ Count(marked, k) = 2

\* C8: markSent for a (type, periodId) that is already in the ledger leaves
\* the set of entries as it is and changes no other entry.
C8_Idempotent ==
  [][ \A i \in 1..3 :
        DueMark(i) =>
          \A k \in {Key(lastEval.due[i])} :
            k \in LedgerKeys(lsSent) =>
              /\ LedgerKeys(lsSent') = LedgerKeys(lsSent)
              /\ \A k2 \in LedgerKeys(lsSent) \ {k} :
                   LedgerStamp(lsSent', k2) = LedgerStamp(lsSent, k2) ]_vars

\* A period marked twice, at two different times, in a ledger that holds other
\* periods.
C8_Witness ==
  \E k \in LedgerKeys(lsSent) :
    /\ Count(marked, k) = 2
    /\ LedgerStamp(lsSent, k) = 1
    /\ Cardinality(LedgerKeys(lsSent)) >= 3

C10_LedgerGrows == [][LedgerKeys(lsSent) \subseteq LedgerKeys(lsSent')]_vars

\* The tracker's history was cleared and the ledger still holds a period.
C10_Witness ==
  /\ cleared
  /\ lsEntries = NoItem
  /\ LedgerKeys(lsSent) # {}

\* ------------------------------------------------------------------------
\* The calendar functions called directly, on the dates of CalStarts and the
\* days that follow them
\* ------------------------------------------------------------------------
\* Days before a year end, the ends of February in leap, common and century
\* years, and the ends of 30-day and 31-day months.
CalStarts ==
  { [y |-> 2024, m |-> 11, d |-> 29], [y |-> 2024, m |-> 1, d |-> 24],
    [y |-> 2023, m |-> 1,  d |-> 24], [y |-> 2100, m |-> 1, d |-> 24],
    [y |-> 2000, m |-> 1,  d |-> 24], [y |-> 2023, m |-> 3, d |-> 26],
    [y |-> 2024, m |-> 5,  d |-> 26], [y |-> 2023, m |-> 7, d |-> 27] }

InitCal ==
  /\ today \in CalStarts
  /\ clock = 0
  /\ lsSent = NoItem
  /\ lsRatings = NoItem
  /\ lsEntries = NoItem
  /\ mailMode = "mailto"
  /\ autoSend = FALSE
  /\ cards = [t \in Tabs |-> <<>>]
  /\ reqs = [t \in Tabs |-> <<>>]
  /\ loaded = [t \in Tabs |-> FALSE]
  /\ saves = 0
  /\ days = 0
  /\ dispatched = EmptyObject
  /\ marked = EmptyObject
  /\ lastEval = NoEval
  /\ cleared = FALSE

\* The next day.
CalNextDay ==
  /\ days < MaxCalDays
  /\ days' = days + 1
  /\ today' = setDate(today, today.d + 1)
  /\ UNCHANGED << clock, lsSent, lsRatings, lsEntries, mailMode, autoSend, cards,
                  reqs, loaded, saves, dispatched, marked, lastEval, cleared >>

\* The week and month functions of both scripts and getDueReports, applied
\* to new Date().
CalCall ==
  /\ lastEval' = [ calls           |-> 1,
                   now             |-> today,
                   week            |-> [ start |-> weekStartMonday(today),
                                         end   |-> weekEndSunday(today) ],
                   trackerWeek     |-> getWeekRangeEndingOn(today),
                   monthEnd        |-> isMonthEnd(today),
                   trackerMonthEnd |-> isMonthEndTracker(today),
                   due             |-> getDueReports(lsSent, lsRatings, today) ]
  /\ UNCHANGED << today, clock, lsSent, lsRatings, lsEntries, mailMode, autoSend,
                  cards, reqs, loaded, saves, days, dispatched, marked, cleared >>

NextCal ==
  \/ CalNextDay
  \/ CalCall

SpecCal == InitCal /\ [][NextCal]_vars

\* The day after dt and the day n days after dt, by the table of month
\* lengths.
DayAfter(dt) ==
  IF dt.d < DaysInMonth(dt.y, dt.m) THEN [dt EXCEPT !.d = dt.d + 1]
  ELSE IF dt.m < 11 THEN [y |-> dt.y, m |-> dt.m + 1, d |-> 1]
  ELSE [y |-> dt.y + 1, m |-> 0, d |-> 1]

RECURSIVE DaysAfter(_, _)
DaysAfter(dt, n) == IF n = 0 THEN dt ELSE DaysAfter(DayAfter(dt), n - 1)

\* YYYY-MM-DD of a date of the years 1000..9999.
IsoOf(dt) ==
  LET two(n) == <<Digits[(n \div 10) + 1], Digits[(n % 10) + 1]>>
  IN  two(dt.y \div 100) \o two(dt.y % 100) \o <<"-">> \o two(dt.m + 1)
        \o <<"-">> \o two(dt.d)

\* w is the Monday..Sunday week of seven consecutive days that contains dt.
IsWeekOf(w, dt) ==
  /\ ZellerDay(w.start) = 2
  /\ ZellerDay(w.end) = 1
  /\ w.end = DaysAfter(w.start, 6)
  /\ \E i \in 0..6 : DaysAfter(w.start, i) = dt

\* C11: the weekly window computed for a date d contains d, starts on a
\* Monday, ends on a Sunday and spans seven consecutive days, also across a
\* month or year boundary; a weekly report returned by getDueReports covers
\* Monday..now, now being a Sunday.
C11_WeeklyWindow ==
  lastEval.calls >= 1 =>
    /\ IsWeekOf(lastEval.week, lastEval.now)
    /\ IsWeekOf(lastEval.trackerWeek, lastEval.now)
    /\ \A i \in 1..Len(lastEval.due) :
         lastEval.due[i].type = "weekly" =>
           /\ ZellerDay(lastEval.now) = 1
           /\ \E start \in {lastEval.week.start} :
                /\ DaysAfter(start, 6) = lastEval.now
                /\ lastEval.due[i].periodId = IsoOf(start) \o <<"_">> \o IsoOf(lastEval.now)

\* The functions were applied to Sunday 2025-01-05, whose week starts in
\* December 2024, and the weekly report was returned for it.
C11_Witness ==
  /\ lastEval.calls >= 1
  /\ lastEval.now = [y |-> 2025, m |-> 0, d |-> 5]
  /\ lastEval.week.start = [y |-> 2024, m |-> 11, d |-> 30]
  /\ lastEval.trackerWeek.end = [y |-> 2025, m |-> 0, d |-> 5]
  /\ \E i \in 1..Len(lastEval.due) : lastEval.due[i].type = "weekly"

\* C12: isMonthEnd(d) holds exactly when d's day of the month is the number
\* of days of d's month: 29 for February of a leap year, 28 for February of
\* any other year (century years not divisible by 400 included), 30 or 31
\* for the other months.
C12_MonthEnd ==
  lastEval.calls >= 1 =>
    /\ lastEval.monthEnd
         <=> lastEval.now.d = DaysInMonth(lastEval.now.y, lastEval.now.m)
    /\ lastEval.trackerMonthEnd
         <=> lastEval.now.d = DaysInMonth(lastEval.now.y, lastEval.now.m)

\* Both isMonthEnd functions were applied to 2100-02-28, the last day of
\* February of a century year that is no leap year, and answered true.
C12_Witness ==
  /\ lastEval.calls >= 1
  /\ lastEval.now = [y |-> 2100, m |-> 1, d |-> 28]
  /\ lastEval.monthEnd
  /\ lastEval.trackerMonthEnd

\* ------------------------------------------------------------------------
\* The three report builders called directly, twice, on dates of IdDates
\* ------------------------------------------------------------------------
\* Days of one week, of two weeks of one month, of one month in three years,
\* and the two days around a year end.
IdDates ==
  { [y |-> 2024, m |-> 1,  d |-> 10], [y |-> 2024, m |-> 1, d |-> 11],
    [y |-> 2024, m |-> 1,  d |-> 20], [y |-> 2023, m |-> 1, d |-> 10],
    [y |-> 2025, m |-> 1,  d |-> 10], [y |-> 2024, m |-> 2, d |-> 1],
    [y |-> 2024, m |-> 11, d |-> 31], [y |-> 2025, m |-> 0, d |-> 1] }

ReportTypes == {"weekly", "monthly", "yearly"}

\* start and end of the three builders, and the periodId of their reports.
BuiltOn(item, now) ==
  [ now    |-> now,
    window |-> [ weekly  |-> [ start |-> weekStartMonday(cloneDate(now)),
                               end   |-> cloneDate(now) ],
                 monthly |-> [ start |-> monthStart(now), end |-> monthEnd(now) ],
                 yearly  |-> [ start |-> yearStart(now),  end |-> yearEnd(now) ] ],
    id     |-> [ weekly  |-> buildWeeklyReport(item, now).periodId,
                 monthly |-> buildMonthlyReport(item, now).periodId,
                 yearly  |-> buildYearlyReport(item, now).periodId ] ]

InitIds ==
  /\ today \in IdDates
  /\ clock = 0
  /\ lsSent = NoItem
  /\ lsRatings = NoItem
  /\ lsEntries = NoItem
  /\ mailMode = "mailto"
  /\ autoSend = FALSE
  /\ cards = [t \in Tabs |-> <<>>]
  /\ reqs = [t \in Tabs |-> <<>>]
  /\ loaded = [t \in Tabs |-> FALSE]
  /\ saves = 0
  /\ days = 0
  /\ dispatched = EmptyObject
  /\ marked = EmptyObject
  /\ lastEval = NoEval
  /\ cleared = FALSE

\* The argument of the next call.
IdDate(dt) ==
  /\ dt # today
  /\ today' = dt
  /\ UNCHANGED << clock, lsSent, lsRatings, lsEntries, mailMode, autoSend, cards,
                  reqs, loaded, saves, days, dispatched, marked, lastEval, cleared >>

\* The three builders applied to today; the results of the call before are
\* kept beside the new ones.
IdCall ==
  /\ \E cur \in {BuiltOn(lsRatings, today)} :
       lastEval' = [ calls |-> IF lastEval.calls = 0 THEN 1 ELSE 2,
                     now   |-> today,
                     cur   |-> cur,
                     prev  |-> IF lastEval.calls = 0 THEN cur ELSE lastEval.cur ]
  /\ UNCHANGED << today, clock, lsSent, lsRatings, lsEntries, mailMode, autoSend,
                  cards, reqs, loaded, saves, days, dispatched, marked, cleared >>

NextIds ==
  \/ \E dt \in IdDates : IdDate(dt)
  \/ IdCall

SpecIds == InitIds /\ [][NextIds]_vars

\* C13: within each type the periodId is a function of the window and an
\* injective one: two reports of one type built for the same start and end
\* carry the same periodId, and two built for different windows (another
\* week, another month of any year, another year) carry different ones.
C13_PeriodIdInjective ==
  lastEval.calls >= 1 =>
    \A type \in ReportTypes :
      (lastEval.cur.id[type] = lastEval.prev.id[type])
        <=> (lastEval.cur.window[type] = lastEval.prev.window[type])

\* Reports were built on 2024-02-10 and then on 2023-02-10: the same month
\* of another year, with different monthly periodIds.
C13_Witness ==
  /\ lastEval.calls = 2
  /\ lastEval.prev.now = [y |-> 2024, m |-> 1, d |-> 10]
  /\ lastEval.cur.now = [y |-> 2023, m |-> 1, d |-> 10]
  /\ lastEval.cur.id["monthly"] # lastEval.prev.id["monthly"]
  /\ lastEval.cur.window["monthly"] # lastEval.prev.window["monthly"]

\* ------------------------------------------------------------------------
\* The two range readers called directly on stores with some days saved
\* ------------------------------------------------------------------------
\* Longest range read, in days after its first day.
MaxRange == 3

\* First days of the ranges read and the days that may have been saved: the
\* end of February 2024 and the day after.
RangeStarts ==
  { [y |-> 2024, m |-> 1, d |-> 27], [y |-> 2024, m |-> 1, d |-> 28],
    [y |-> 2024, m |-> 1, d |-> 29] }

RangeDays == RangeStarts \cup { [y |-> 2024, m |-> 2, d |-> 1] }

\* The item of STORAGE_KEY after a rating of 3 for the first category was
\* saved on each day of S, and the item of the tracker after a form of
\* threes was submitted on each day of S.
RECURSIVE SavedOn(_)
SavedOn(S) ==
  IF S = {} THEN NoItem
  ELSE Only({ saveRatingForToday(SavedOn(S \ {dt}), dt, 0, CATEGORIES[1].key, 30)
              : dt \in {CHOOSE x \in S : TRUE} })

RECURSIVE SubmittedOn(_)
SubmittedOn(S) ==
  IF S = {} THEN NoItem
  ELSE Only({ submitStore(SubmittedOn(S \ {dt}), dt, 0,
                          getSelectedRatings([c \in CatIdx |-> "3"]).out)
              : dt \in {CHOOSE x \in S : TRUE} })

InitRange ==
  /\ today \in RangeStarts
  /\ days \in 0..MaxRange
  /\ \E S \in SUBSET RangeDays :
       /\ lsRatings = SavedOn(S)
       /\ lsEntries = SubmittedOn(S)
  /\ clock = 0
  /\ lsSent = NoItem
  /\ mailMode = "mailto"
  /\ autoSend = FALSE
  /\ cards = [t \in Tabs |-> <<>>]
  /\ reqs = [t \in Tabs |-> <<>>]
  /\ loaded = [t \in Tabs |-> FALSE]
  /\ saves = 0
  /\ dispatched = EmptyObject
  /\ marked = EmptyObject
  /\ lastEval = NoEval
  /\ cleared = FALSE

\* getRatingsInRange and listEntriesInRange for the range that starts today
\* and ends days days later.
RangeCall ==
  /\ \E endDate \in {setDate(today, today.d + days)} :
       lastEval' = [ calls     |-> 1,
                     now       |-> today,
                     endDate   |-> endDate,
                     rows      |-> getRatingsInRange(lsRatings, today, endDate),
                     entryRows |-> listEntriesInRange(loadStore(lsEntries), today, endDate) ]
  /\ UNCHANGED << today, clock, lsSent, lsRatings, lsEntries, mailMode, autoSend,
                  cards, reqs, loaded, saves, days, dispatched, marked, cleared >>

NextRange == RangeCall

SpecRange == InitRange /\ [][NextRange]_vars

\* The rows of getRatingsInRange are one per calendar date of the range, in
\* ascending order, with the stored object of the date or {}.
RatingsRowPerDate ==
  lastEval.calls >= 1 =>
    /\ Len(lastEval.rows) = days + 1
    /\ \A i \in 1..Len(lastEval.rows) :
         \E key \in {IsoOf(DaysAfter(lastEval.now, i - 1))} :
           /\ lastEval.rows[i].date = key
           /\ lastEval.rows[i].values
                = IF lsRatings # NoItem /\ key \in DOMAIN lsRatings.val
                  THEN lsRatings.val[key] ELSE EmptyObject

\* The same of the rows of listEntriesInRange.
EntriesRowPerDate ==
  lastEval.calls >= 1 =>
    /\ Len(lastEval.entryRows) = days + 1
    /\ \A i \in 1..Len(lastEval.entryRows) :
         \E key \in {IsoOf(DaysAfter(lastEval.now, i - 1))} :
           /\ lastEval.entryRows[i].date = key
           /\ lastEval.entryRows[i].data
                = IF lsEntries # NoItem /\ key \in DOMAIN lsEntries.val["entries"]
                  THEN lsEntries.val["entries"][key] ELSE EmptyObject

\* C14: for every start date not after the end date and every store, the
\* range is read as (end - start in days) + 1 rows, one per calendar date in
\* ascending order, with empty values for a date without a stored rating.
C14_RowPerDate == RatingsRowPerDate /\ EntriesRowPerDate

\* ------------------------------------------------------------------------
\* The two averaging functions called directly on stores of two days
\* ------------------------------------------------------------------------
\* The two days of the window read.
AvgStart == [y |-> 2024, m |-> 0, d |-> 1]

AvgEnd == [y |-> 2024, m |-> 0, d |-> 2]

\* Stored values of the first category (no property, 3, 4.5, 5, 6, 5.4, 0.5, 0),
\* of the second (no property, 2, 3) and of both others (no property, 2).
NoProperty == 0 - 1

FirstValues == {NoProperty, 30, 45, 50, 60, 54, 5, 0}

SecondValues == {NoProperty, 20, 30}

OtherValues == {NoProperty, 20}

\* The category scores stored for one day.
DayValues ==
  { [c \in CatIdx |-> IF c = 1 THEN a ELSE IF c = 2 THEN b ELSE o]
    : a \in FirstValues, b \in SecondValues, o \in OtherValues }

\* The object stored for a day with the scores vs and the time stamp
\* property stamp.
DayObject(vs, stamp) ==
  [ k \in {CATEGORIES[c].key : c \in {x \in CatIdx : vs[x] # NoProperty}} \cup {stamp} |->
      IF k = stamp THEN 0 ELSE vs[Only({c \in CatIdx : CATEGORIES[c].key = k})] ]

InitAvg ==
  /\ today = AvgStart
  /\ days = 1
  /\ \E v1 \in DayValues, v2 \in DayValues :
       /\ lsRatings = writeJson([ k \in {isoLocal(AvgStart), isoLocal(AvgEnd)} |->
                                    DayObject(IF k = isoLocal(AvgStart) THEN v1 ELSE v2,
                                              "_updatedAt") ])
       /\ lsEntries = writeJson([ entries |->
                                    [ k \in {toISODate(AvgStart), toISODate(AvgEnd)} |->
                                        DayObject(IF k = toISODate(AvgStart) THEN v1 ELSE v2,
                                                  "savedAt") ] ])
  /\ clock = 0
  /\ lsSent = NoItem
  /\ mailMode = "mailto"
  /\ autoSend = FALSE
  /\ cards = [t \in Tabs |-> <<>>]
  /\ reqs = [t \in Tabs |-> <<>>]
  /\ loaded = [t \in Tabs |-> FALSE]
  /\ saves = 0
  /\ dispatched = EmptyObject
  /\ marked = EmptyObject
  /\ lastEval = NoEval
  /\ cleared = FALSE

\* calcAverages of the rows of getRatingsInRange and
\* computeAveragesForEntries of the rows of listEntriesInRange, for the window
\* of the two days.
AvgCall ==
  /\ \E rows \in {getRatingsInRange(lsRatings, AvgStart, AvgEnd)},
        entryRows \in {listEntriesInRange(loadStore(lsEntries), AvgStart, AvgEnd)} :
       lastEval' = [ calls     |-> 1,
                     now       |-> today,
                     rows      |-> rows,
                     entryRows |-> entryRows,
                     lenient   |-> calcAverages(rows),
                     strict    |-> computeAveragesForEntries(entryRows) ]
  /\ UNCHANGED << today, clock, lsSent, lsRatings, lsEntries, mailMode, autoSend,
                  cards, reqs, loaded, saves, days, dispatched, marked, cleared >>

NextAvg == AvgCall

SpecAvg == InitAvg /\ [][NextAvg]_vars

\* The product of the denominators of the quotients qs[c], c in S, and the
\* numerator of their sum over that product.
RECURSIVE DenominatorOf(_, _)
DenominatorOf(qs, S) ==
  IF S = {} THEN 1
  ELSE LET c == CHOOSE x \in S : TRUE IN qs[c].d * DenominatorOf(qs, S \ {c})

RECURSIVE NumeratorOf(_, _)
NumeratorOf(qs, S) ==
  IF S = {} THEN 0
  ELSE LET c == CHOOSE x \in S : TRUE
       IN  qs[c].n * DenominatorOf(qs, S \ {c}) + qs[c].d * NumeratorOf(qs, S \ {c})

\* q is the arithmetic mean of the quotients qs[c], c in S, S not empty.
IsMeanOf(q, qs, S) ==
  /\ q.d > 0
  /\ q.n * DenominatorOf(qs, S) * Cardinality(S) = NumeratorOf(qs, S) * q.d

\* C15: overall is the arithmetic mean of the category averages that are
\* present, and null when no category has an average: for a window without
\* a complete day computeAveragesForEntries returns overall = null, not 0.
C15_OverallNoData ==
  lastEval.calls >= 1 =>
    LET avgs    == lastEval.strict.perCategory
        present == {c \in CatIdx : avgs[c] # Null}
    IN  IF present = {} THEN lastEval.strict.overall = Null
        ELSE IsMeanOf(lastEval.strict.overall, avgs, present)

\* With a complete day, overall is the mean of the category averages.
C15_OverallWithData ==
  (lastEval.calls >= 1 /\ lastEval.strict.daysCount > 0) =>
    IsMeanOf(lastEval.strict.overall, lastEval.strict.perCategory, CatIdx)

\* The rows with a present and valid score of the category c, and the sum of
\* those scores over the rows of I.
ValidRows(rows, c) ==
  { i \in 1..Len(rows) :
      /\ CATEGORIES[c].key \in DOMAIN rows[i].values
      /\ rows[i].values[CATEGORIES[c].key] >= 10
      /\ rows[i].values[CATEGORIES[c].key] <= 50 }

RECURSIVE ScoreSum(_, _, _)
ScoreSum(rows, c, I) ==
  IF I = {} THEN 0
  ELSE LET i == CHOOSE x \in I : TRUE
       IN  rows[i].values[CATEGORIES[c].key] + ScoreSum(rows, c, I \ {i})

\* C16: calcAverages yields for each category the mean of exactly its
\* present and valid (1..5) scores over the rows, whatever the other
\* categories hold, with count the number of such rows, and null, never 0,
\* for a category without a valid score.
C16_Lenient ==
  lastEval.calls >= 1 =>
    \A c \in CatIdx :
      LET I == ValidRows(lastEval.rows, c)
      IN  /\ lastEval.lenient.counts[c] = Cardinality(I)
          /\ IF I = {} THEN lastEval.lenient.avg[c] = Null
             ELSE /\ lastEval.lenient.avg[c].d > 0
                  /\ lastEval.lenient.avg[c].n * Cardinality(I)
                       = ScoreSum(lastEval.rows, c, I) * lastEval.lenient.avg[c].d

\* calcAverages was applied to rows in which the first category holds 6 and
\* 3, the second 2 on one day only and the others nothing: the averages are
\* 3 over one day, 2 over one day and null.
C16_Witness ==
  /\ lastEval.calls >= 1
  /\ lastEval.rows[1].values = [consistency |-> 60, _updatedAt |-> 0]
  /\ lastEval.rows[2].values = [consistency |-> 30, discipline |-> 20, _updatedAt |-> 0]
  /\ lastEval.lenient.counts = <<1, 1, 0, 0>>
  /\ lastEval.lenient.avg
       = <<[n |-> 30, d |-> 1], [n |-> 20, d |-> 1], Null, Null>>

\* The rows of listEntriesInRange with a present and valid (1..5) score for
\* every category, and the sum of the scores of c over the rows of I.
CompleteRows(entryRows) ==
  { i \in 1..Len(entryRows) :
      \A c \in CatIdx :
        /\ CATEGORIES[c].key \in DOMAIN entryRows[i].data
        /\ entryRows[i].data[CATEGORIES[c].key] >= 10
        /\ entryRows[i].data[CATEGORIES[c].key] <= 50 }

RECURSIVE EntrySum(_, _, _)
EntrySum(entryRows, c, I) ==
  IF I = {} THEN 0
  ELSE LET i == CHOOSE x \in I : TRUE
       IN  entryRows[i].data[CATEGORIES[c].key] + EntrySum(entryRows, c, I \ {i})

\* C17: computeAveragesForEntries counts a day only if the day has a valid
\* score for every category; daysCount is the number of such complete days,
\* each average is the mean of the category's scores over exactly those
\* days, and all averages are null without a complete day.
C17_Strict ==
  lastEval.calls >= 1 =>
    LET I == CompleteRows(lastEval.entryRows)
    IN  /\ lastEval.strict.daysCount = Cardinality(I)
        /\ \A c \in CatIdx :
             IF I = {} THEN lastEval.strict.perCategory[c] = Null
             ELSE /\ lastEval.strict.perCategory[c].d > 0
                  /\ lastEval.strict.perCategory[c].n * Cardinality(I)
                       = EntrySum(lastEval.entryRows, c, I) * lastEval.strict.perCategory[c].d

\* The same for the rows whose stored scores are whole numbers.
C17_StrictWholeScores ==
  (/\ lastEval.calls >= 1
   /\ \A i \in 1..Len(lastEval.entryRows), c \in CatIdx :
        CATEGORIES[c].key \in DOMAIN lastEval.entryRows[i].data
          => lastEval.entryRows[i].data[CATEGORIES[c].key] % 10 = 0)
    => C17_Strict

\* The functions were applied to the ratings 2024-01-01: {a: 3} and
\* 2024-01-02: {a: 5, b: 2}, a the first category and b each of the others.
PartialThenComplete ==
  /\ lastEval.calls >= 1
  /\ lastEval.now = AvgStart
  /\ lastEval.rows[1].values = [consistency |-> 30, _updatedAt |-> 0]
  /\ lastEval.entryRows[1].data = [consistency |-> 30, savedAt |-> 0]
  /\ lastEval.rows[2].values
       = [ consistency |-> 50, discipline |-> 20, determination |-> 20, interest |-> 20,
           _updatedAt |-> 0 ]
  /\ lastEval.entryRows[2].data
       = [ consistency |-> 50, discipline |-> 20, determination |-> 20, interest |-> 20,
           savedAt |-> 0 ]

\* C18: with the ratings 2024-01-01: {a: 3} and 2024-01-02: {a: 5, b: 2}
\* and the window of these two days, calcAverages yields a = 4 and b = 2 and
\* computeAveragesForEntries yields a = 5 and b = 2: the two give different
\* averages for a.
C18_PoliciesDiffer ==
  PartialThenComplete =>
    /\ \A c \in CatIdx : lastEval.lenient.avg[c].d > 0 /\ lastEval.strict.perCategory[c].d > 0
    /\ lastEval.lenient.avg[1].n = 4 * 10 * lastEval.lenient.avg[1].d
    /\ lastEval.strict.perCategory[1].n = 5 * 10 * lastEval.strict.perCategory[1].d
    /\ \A c \in CatIdx \ {1} :
         /\ lastEval.lenient.avg[c].n = 2 * 10 * lastEval.lenient.avg[c].d
         /\ lastEval.strict.perCategory[c].n = 2 * 10 * lastEval.strict.perCategory[c].d
    /\ lastEval.lenient.avg[1] # lastEval.strict.perCategory[1]

\* Both functions were applied to these ratings: the first category was
\* averaged over two days by the one and over one day by the other.
C18_Witness ==
  /\ PartialThenComplete
  /\ lastEval.lenient.counts = <<2, 1, 1, 1>>
  /\ lastEval.strict.daysCount = 1

\* The stored object o without the category scores that are outside 1..5.
WithoutInvalid(o) ==
  [ k \in { x \in DOMAIN o :
              (\E c \in CatIdx : CATEGORIES[c].key = x) => (o[x] >= 10 /\ o[x] <= 50) } |->
      o[k] ]

\* calcAverages treats a stored score outside 1..5 as if it were absent.
LenientInvalidAsAbsent ==
  lastEval.calls >= 1 =>
    lastEval.lenient
      = calcAverages([i \in 1..Len(lastEval.rows) |->
                        [lastEval.rows[i] EXCEPT !.values = WithoutInvalid(@)]])

\* computeAveragesForEntries does the same.
StrictInvalidAsAbsent ==
  lastEval.calls >= 1 =>
    lastEval.strict
      = computeAveragesForEntries([i \in 1..Len(lastEval.entryRows) |->
                                     [lastEval.entryRows[i] EXCEPT !.data = WithoutInvalid(@)]])

\* C19: under both policies a stored score outside 1..5 (0, 6, 5.4, 0.5) is
\* treated as if absent: it adds to no sum and no count and its day is no
\* complete day; the stored value stays as it is.
C19_InvalidAsAbsent ==
  /\ LenientInvalidAsAbsent
  /\ StrictInvalidAsAbsent
  /\ lastEval.calls >= 1 =>
       /\ lastEval.rows = getRatingsInRange(lsRatings, AvgStart, AvgEnd)
       /\ lastEval.entryRows = listEntriesInRange(loadStore(lsEntries), AvgStart, AvgEnd)

\* The category scores of a stored object are whole numbers from 1 to 5.
WholeScores(o) ==
  \A c \in CatIdx :
    CATEGORIES[c].key \in DOMAIN o => o[CATEGORIES[c].key] \in {10, 20, 30, 40, 50}

\* Every score the submit handler of the tracker stored is one.
EntriesWholeScores ==
  lsEntries # NoItem =>
    \A k \in DOMAIN lsEntries.val["entries"] : WholeScores(lsEntries.val["entries"][k])

\* C20: after any sequence of rating-input changes and form submits every
\* category score held in the store for any date is a whole number from 1 to
\* 5; an input value outside that range is never written as it is.
C20_StoredScores ==
  /\ lsRatings # NoItem => \A k \in DOMAIN lsRatings.val : WholeScores(lsRatings.val[k])
  /\ EntriesWholeScores

\* ------------------------------------------------------------------------
\* The storage functions called directly on any persisted content
\* ------------------------------------------------------------------------
\* The items with a foreign or unparsable content.
BrokenItems == {[kind |-> k] : k \in ForeignKinds \cup {"unparsable"}}

\* The day of the calls, and the period asked for and marked.
StoredDay == [y |-> 2024, m |-> 1, d |-> 28]

StoredPeriodId == buildWeeklyReport(NoItem, [y |-> 2023, m |-> 11, d |-> 17]).periodId

InitStored ==
  /\ today = StoredDay
  /\ clock = 0
  /\ lsSent \in {NoItem, PastLedger} \cup BrokenItems
  /\ lsRatings \in {NoItem, SavedOn({StoredDay})} \cup BrokenItems
  /\ lsEntries \in {NoItem, SubmittedOn({StoredDay})} \cup BrokenItems
  /\ mailMode = "mailto"
  /\ autoSend = FALSE
  /\ cards = [t \in Tabs |-> <<>>]
  /\ reqs = [t \in Tabs |-> <<>>]
  /\ loaded = [t \in Tabs |-> FALSE]
  /\ saves = 0
  /\ days = 0
  /\ dispatched = EmptyObject
  /\ marked = EmptyObject
  /\ lastEval = NoEval
  /\ cleared = FALSE

\* alreadySent("weekly", StoredPeriodId)
StoredAlreadySent ==
  /\ lastEval.calls < MaxCalls
  /\ \E out \in {alreadySentAny(lsSent, "weekly", StoredPeriodId)} :
       lastEval' = [ calls |-> lastEval.calls + 1, fn |-> "alreadySent",
                     before |-> lsSent, out |-> out ]
  /\ UNCHANGED << today, clock, lsSent, lsRatings, lsEntries, mailMode, autoSend,
                  cards, reqs, loaded, saves, days, dispatched, marked, cleared >>

\* markSent("weekly", StoredPeriodId)
StoredMarkSent ==
  /\ lastEval.calls < MaxCalls
  /\ \E out \in {markSentAny(lsSent, "weekly", StoredPeriodId, clock)} :
       /\ lsSent' = out.item
       /\ lastEval' = [ calls |-> lastEval.calls + 1, fn |-> "markSent",
                        before |-> lsSent, out |-> out ]
  /\ UNCHANGED << today, clock, lsRatings, lsEntries, mailMode, autoSend,
                  cards, reqs, loaded, saves, days, dispatched, marked, cleared >>

\* saveRatingForToday(CATEGORIES[1].key, 3)
StoredSave ==
  /\ lastEval.calls < MaxCalls
  /\ \E out \in {saveRatingForTodayAny(lsRatings, today, clock, CATEGORIES[1].key, 30)} :
       /\ lsRatings' = out.item
       /\ lastEval' = [ calls |-> lastEval.calls + 1, fn |-> "saveRatingForToday",
                        before |-> lsRatings, out |-> out ]
  /\ UNCHANGED << today, clock, lsSent, lsEntries, mailMode, autoSend,
                  cards, reqs, loaded, saves, days, dispatched, marked, cleared >>

\* getRatingsInRange(today, today)
StoredRead ==
  /\ lastEval.calls < MaxCalls
  /\ \E out \in {getRatingsInRangeAny(lsRatings, today, today)} :
       lastEval' = [ calls |-> lastEval.calls + 1, fn |-> "getRatingsInRange",
                     before |-> lsRatings, out |-> out ]
  /\ UNCHANGED << today, clock, lsSent, lsRatings, lsEntries, mailMode, autoSend,
                  cards, reqs, loaded, saves, days, dispatched, marked, cleared >>

\* loadStore() of the tracker
StoredLoad ==
  /\ lastEval.calls < MaxCalls
  /\ lastEval' = [ calls |-> lastEval.calls + 1, fn |-> "loadStore",
                   before |-> lsEntries,
                   out |-> [threw |-> FALSE, item |-> lsEntries,
                            result |-> loadStoreAny(lsEntries)] ]
  /\ UNCHANGED << today, clock, lsSent, lsRatings, lsEntries, mailMode, autoSend,
                  cards, reqs, loaded, saves, days, dispatched, marked, cleared >>

NextStored ==
  \/ StoredAlreadySent
  \/ StoredMarkSent
  \/ StoredSave
  \/ StoredRead
  \/ StoredLoad

SpecStored == InitStored /\ [][NextStored]_vars

\* What the last call returns, and the item it leaves, when the item is
\* empty.
OnEmpty(fn) ==
  CASE fn = "alreadySent" ->
         [result |-> FALSE, item |-> NoItem]
    [] fn = "markSent" ->
         [item |-> writeJson([weekly |-> (StoredPeriodId :> clock)])]
    [] fn = "saveRatingForToday" ->
         [item |-> writeJson(isoLocal(StoredDay) :> [consistency |-> 30, _updatedAt |-> clock])]
    [] fn = "getRatingsInRange" ->
         [result |-> <<[date |-> isoLocal(StoredDay), values |-> EmptyObject]>>,
          item |-> NoItem]
    [] fn = "loadStore" ->
         [result |-> [entries |-> EmptyObject], item |-> NoItem]

\* The last call found an unparsable item and went on as with an empty one.
UnparsableAsEmpty ==
  (lastEval.calls >= 1 /\ lastEval.before.kind = "unparsable") =>
    /\ ~lastEval.out.threw
    /\ \A f \in DOMAIN OnEmpty(lastEval.fn) :
         f = "result" => lastEval.out.result = OnEmpty(lastEval.fn).result
    /\ lastEval.fn \in {"markSent", "saveRatingForToday"}
         => lastEval.out.item = OnEmpty(lastEval.fn).item

\* C21: for every persisted content of the store key and the ledger key,
\* unparsable text and JSON of a foreign shape (null, a number, a string, an
\* array) included, alreadySent, markSent, saveRatingForToday,
\* getRatingsInRange and loadStore behave as if the store or ledger were
\* empty and complete without raising an error.
C21_BrokenAsEmpty ==
  (lastEval.calls >= 1 /\ lastEval.before \in BrokenItems) =>
    /\ ~lastEval.out.threw
    /\ \A f \in DOMAIN OnEmpty(lastEval.fn) :
         f = "result" => lastEval.out.result = OnEmpty(lastEval.fn).result
    /\ lastEval.fn \in {"markSent", "saveRatingForToday"}
         => lastEval.out.item = OnEmpty(lastEval.fn).item

\* ------------------------------------------------------------------------
\* saveRatingForToday called directly, on stores with some days saved
\* ------------------------------------------------------------------------
\* The days of the calls, the categories saved and the values saved.
SaveDays == { [y |-> 2024, m |-> 1, d |-> 28], [y |-> 2024, m |-> 1, d |-> 29] }

SaveCats == {1, 2}

SaveValues == {30, 50}

InitSave ==
  /\ today \in SaveDays
  /\ clock = 0
  /\ lsSent = NoItem
  /\ \E S \in SUBSET RangeDays : lsRatings = SavedOn(S)
  /\ lsEntries = NoItem
  /\ mailMode = "mailto"
  /\ autoSend = FALSE
  /\ cards = [t \in Tabs |-> <<>>]
  /\ reqs = [t \in Tabs |-> <<>>]
  /\ loaded = [t \in Tabs |-> FALSE]
  /\ saves = 0
  /\ days = 0
  /\ dispatched = EmptyObject
  /\ marked = EmptyObject
  /\ lastEval = NoEval
  /\ cleared = FALSE

\* saveRatingForToday(CATEGORIES[c].key, value); the store before and after
\* the call is kept.
SaveCall(c, value) ==
  /\ lastEval.calls < MaxCalls
  /\ \E after \in {saveRatingForToday(lsRatings, today, clock, CATEGORIES[c].key, value)} :
       /\ lsRatings' = after
       /\ lastEval' = [ calls |-> lastEval.calls + 1, now |-> today, ts |-> clock,
                        key |-> CATEGORIES[c].key, value |-> value,
                        before |-> readJson(lsRatings, EmptyObject),
                        after |-> readJson(after, EmptyObject) ]
  /\ UNCHANGED << today, clock, lsSent, lsEntries, mailMode, autoSend, cards, reqs,
                  loaded, saves, days, dispatched, marked, cleared >>

NextSave ==
  \/ Tick
  \/ \E c \in SaveCats, value \in SaveValues : SaveCall(c, value)

SpecSave == InitSave /\ [][NextSave]_vars

\* C22: saveRatingForToday(category, score) changes only that category's
\* score and the time stamp of today's record: the other categories of today
\* and the records of all other dates stay, it succeeds when no other
\* category is present, and the identical save again leaves all scores as
\* they are.
C22_SaveFrame ==
  lastEval.calls >= 1 =>
    LET tdy    == IsoOf(lastEval.now)
        before == lastEval.before
        after  == lastEval.after
        old    == IF tdy \in DOMAIN before THEN before[tdy] ELSE EmptyObject
    IN  /\ DOMAIN after = DOMAIN before \cup {tdy}
        /\ \A k \in DOMAIN before : k # tdy => after[k] = before[k]
        /\ DOMAIN after[tdy] = DOMAIN old \cup {lastEval.key, "_updatedAt"}
        /\ \A p \in DOMAIN old : p \notin {lastEval.key, "_updatedAt"} => after[tdy][p] = old[p]
        /\ after[tdy][lastEval.key] = lastEval.value
        /\ after[tdy]["_updatedAt"] = lastEval.ts

\* The second category was saved twice with the same score, the second time
\* at a later time, on a day whose first category and whose day before had
\* been saved earlier.
C22_Witness ==
  /\ lastEval.calls = 2
  /\ lastEval.now = [y |-> 2024, m |-> 1, d |-> 29]
  /\ lastEval.key = CATEGORIES[2].key
  /\ IsoOf(lastEval.now) \in DOMAIN lastEval.before
  /\ IsoOf([y |-> 2024, m |-> 1, d |-> 28]) \in DOMAIN lastEval.after
  /\ \E old \in {lastEval.before[IsoOf(lastEval.now)]} :
       /\ DOMAIN old = {CATEGORIES[1].key, CATEGORIES[2].key, "_updatedAt"}
       /\ old[CATEGORIES[2].key] = lastEval.value
       /\ old["_updatedAt"] < lastEval.ts

\* ------------------------------------------------------------------------
\* The three report builders called twice, at different times, with
\* different ledgers, on dates of ComposeDates
\* ------------------------------------------------------------------------
\* Two days of one month, one of them a Sunday, and a day of the next month.
ComposeDates ==
  { [y |-> 2024, m |-> 1, d |-> 11], [y |-> 2024, m |-> 1, d |-> 20],
    [y |-> 2024, m |-> 2, d |-> 1] }

\* start and end of the three builders and the reports they return.
Composed(item, now) ==
  [ now    |-> now,
    store  |-> item,
    window |-> [ weekly  |-> [ start |-> weekStartMonday(cloneDate(now)),
                               end   |-> cloneDate(now) ],
                 monthly |-> [ start |-> monthStart(now), end |-> monthEnd(now) ],
                 yearly  |-> [ start |-> yearStart(now),  end |-> yearEnd(now) ] ],
    report |-> [ weekly  |-> buildWeeklyReport(item, now),
                 monthly |-> buildMonthlyReport(item, now),
                 yearly  |-> buildYearlyReport(item, now) ] ]

InitCompose ==
  /\ today \in ComposeDates
  /\ clock = 0
  /\ lsSent = NoItem
  /\ lsRatings \in {NoItem, SavedOn({[y |-> 2024, m |-> 1, d |-> 11]})}
  /\ lsEntries = NoItem
  /\ mailMode = "mailto"
  /\ autoSend = FALSE
  /\ cards = [t \in Tabs |-> <<>>]
  /\ reqs = [t \in Tabs |-> <<>>]
  /\ loaded = [t \in Tabs |-> FALSE]
  /\ saves = 0
  /\ days = 0
  /\ dispatched = EmptyObject
  /\ marked = EmptyObject
  /\ lastEval = NoEval
  /\ cleared = FALSE

\* The argument of the next call.
ComposeDate(dt) ==
  /\ dt # today
  /\ today' = dt
  /\ UNCHANGED << clock, lsSent, lsRatings, lsEntries, mailMode, autoSend, cards,
                  reqs, loaded, saves, days, dispatched, marked, lastEval, cleared >>

\* markSent("monthly", the month of today)
ComposeMark ==
  /\ lsSent = NoItem
  /\ lsSent' = markSent(lsSent, "monthly", slice0(isoLocal(today), 7), clock)
  /\ UNCHANGED << today, clock, lsRatings, lsEntries, mailMode, autoSend, cards,
                  reqs, loaded, saves, days, dispatched, marked, lastEval, cleared >>

\* The three builders applied to today; the results of the call before are
\* kept beside the new ones, with the time and the ledger of each call.
ComposeCall ==
  /\ \E cur \in {[built |-> Composed(lsRatings, today), ts |-> clock, sent |-> lsSent]} :
       lastEval' = [ calls |-> IF lastEval.calls = 0 THEN 1 ELSE 2,
                     now   |-> today,
                     cur   |-> cur,
                     prev  |-> IF lastEval.calls = 0 THEN cur ELSE lastEval.cur ]
  /\ UNCHANGED << today, clock, lsSent, lsRatings, lsEntries, mailMode, autoSend,
                  cards, reqs, loaded, saves, days, dispatched, marked, cleared >>

NextCompose ==
  \/ Tick
  \/ \E dt \in ComposeDates : ComposeDate(dt)
  \/ ComposeMark
  \/ ComposeCall

SpecCompose == InitCompose /\ [][NextCompose]_vars

\* C23: two evaluations with the same window, the same categories and the
\* same store content return the same subject and body from each builder,
\* whatever the time and the ledger of each evaluation.
C23_Reproducible ==
  lastEval.calls >= 1 =>
    \A type \in ReportTypes :
      (/\ lastEval.cur.built.store = lastEval.prev.built.store
       /\ lastEval.cur.built.window[type] = lastEval.prev.built.window[type])
        => /\ lastEval.cur.built.report[type].subject = lastEval.prev.built.report[type].subject
           /\ lastEval.cur.built.report[type].body = lastEval.prev.built.report[type].body

\* The monthly and yearly reports were built on 2024-02-11 and again on
\* 2024-02-20, at a later time and after the month was marked as sent.
C23_Witness ==
  /\ lastEval.calls = 2
  /\ lastEval.prev.built.now = [y |-> 2024, m |-> 1, d |-> 11]
  /\ lastEval.cur.built.now = [y |-> 2024, m |-> 1, d |-> 20]
  /\ lastEval.prev.ts < lastEval.cur.ts
  /\ lastEval.prev.sent = NoItem
  /\ lastEval.cur.sent # NoItem
  /\ lastEval.cur.built.store # NoItem
  /\ lastEval.cur.built.report["monthly"].body = lastEval.prev.built.report["monthly"].body

\* ------------------------------------------------------------------------
\* Properties of the reminder cards and the requests of a page
\* ------------------------------------------------------------------------
\* C24: dismissing a reminder does not mark the period as sent: the click
\* leaves the ledger and the store as they are, and the same
\* (type, periodId), unsent on its boundary day, is returned again by the
\* next getDueReports of that day.
C24_DismissKeepsDue ==
  [][ \A i \in 1..MaxCards :
        DismissClick(1, i) =>
          /\ lsSent' = lsSent
          /\ lsRatings' = lsRatings
          /\ marked' = marked
          /\ \A k \in {Key(cards[1][i].report)} :
               (k \notin LedgerKeys(lsSent) /\ PeriodKey(today, k[1]) = k /\ Boundary(today, k[1]))
                 => k \in KeysOf(getDueReports(lsSent', lsRatings', today')) ]_vars

\* In mailto mode a rating was saved on the Sunday, which showed a card, and
\* no card is left although nothing was sent or marked: the cards were
\* dismissed, and the week is still due.
C24_Witness ==
  /\ mailMode = "mailto"
  /\ loaded[1]
  /\ Boundary(today, "weekly")
  /\ lsRatings # NoItem
  /\ IsoOf(today) \in DOMAIN lsRatings.val
  /\ cards[1] = <<>>
  /\ LedgerKeys(lsSent) = {}
  /\ dispatched = EmptyObject
  /\ PeriodKey(today, "weekly") \in KeysOf(getDueReports(lsSent, lsRatings, today))

\* ------------------------------------------------------------------------
\* One page in api mode on a Sunday, its user clicking every enabled send
\* button sooner or later and the transport succeeding sooner or later
\* ------------------------------------------------------------------------
RetryDay == [y |-> 2024, m |-> 2, d |-> 24]

InitRetry ==
  /\ today = RetryDay
  /\ clock = 0
  /\ lsSent = NoItem
  /\ lsRatings = NoItem
  /\ lsEntries = NoItem
  /\ mailMode = "api"
  /\ autoSend \in BOOLEAN
  /\ cards = [t \in Tabs |-> <<>>]
  /\ reqs = [t \in Tabs |-> <<>>]
  /\ loaded = [t \in Tabs |-> FALSE]
  /\ saves = 0
  /\ days = 0
  /\ dispatched = EmptyObject
  /\ marked = EmptyObject
  /\ lastEval = NoEval
  /\ cleared = FALSE

NextRetry ==
  \/ Tick
  \/ PageLoad(1)
  \/ \E c \in CatIdx, text \in InputValues : RatingChange(1, c, text)
  \/ \E i \in 1..MaxCards : SendClick(1, i)
  \/ \E j \in 1..MaxReqs : ApiOk(1, j)
  \/ \E j \in 1..MaxReqs : ApiFail(1, j)

SpecRetry ==
  /\ InitRetry
  /\ [][NextRetry]_vars
  /\ \A i \in 1..MaxCards : WF_vars(SendClick(1, i))
  /\ \A j \in 1..MaxReqs : SF_vars(ApiOk(1, j))

\* The page shows a card for the period k or has a request for it in flight.
Pending(k) ==
  \/ \E i \in 1..Len(cards[1]) : Key(cards[1][i].report) = k
  \/ \E j \in 1..Len(reqs[1]) : Key(reqs[1][j].report) = k

\* C25: in api mode, after a failed send the send button of the reminder is
\* enabled again (button path) or a reminder is rendered (automatic path);
\* a later send that succeeds marks the period and removes its card; and if
\* the user keeps retrying and the transport succeeds in the end, the period
\* is in the ledger in the end.
C25_RetryAfterFailure ==
  /\ [][ \A j \in 1..MaxReqs :
           /\ ApiFail(1, j) =>
                \E i \in 1..Len(cards'[1]) :
                  /\ Key(cards'[1][i].report) = Key(reqs[1][j].report)
                  /\ ~cards'[1][i].disabled
                  /\ reqs[1][j].card # 0 => cards'[1][i].id = reqs[1][j].card
           /\ ApiOk(1, j) =>
                /\ Key(reqs[1][j].report) \in LedgerKeys(lsSent')
                /\ \A i \in 1..Len(cards'[1]) : cards'[1][i].id # reqs[1][j].card ]_vars
  /\ Pending(PeriodKey(RetryDay, "weekly"))
       ~> (PeriodKey(RetryDay, "weekly") \in LedgerKeys(lsSent))

\* With automatic sending a card is shown only after a failure: the user
\* clicked its send button and the request of the retry is in flight.
C25_Witness ==
  /\ mailMode = "api"
  /\ autoSend
  /\ \E j \in 1..Len(reqs[1]) :
       /\ reqs[1][j].card # 0
       /\ \E i \in 1..Len(cards[1]) :
            cards[1][i].id = reqs[1][j].card /\ cards[1][i].disabled
  /\ LedgerKeys(lsSent) = {}

\* C26: at any time at most one reminder card is shown per
\* (type, periodId): checkDueReports run again, on page load or after a
\* rating change, while a card for a still unsent period is shown adds no
\* second card for the period.
C26_OneCardPerPeriod ==
  \A i, j \in 1..Len(cards[1]) :
    Key(cards[1][i].report) = Key(cards[1][j].report) => i = j

\* C27: in api mode with autoSendIfPossible at most one request is in flight
\* per (type, periodId): a checkDueReports that runs before the promise of
\* the first request settles starts no second request for the period.
C27_OneRequestPerPeriod ==
  (mailMode = "api" /\ autoSend) =>
    \A i, j \in 1..Len(reqs[1]) :
      Key(reqs[1][i].report) = Key(reqs[1][j].report) => i = j

\* ------------------------------------------------------------------------
\* Two contexts sharing localStorage, each calling markSent once; nothing
\* orders the getItem of one context and the setItem of the other
\* ------------------------------------------------------------------------
\* Sundays 2024-03-31 and 2023-12-31, each the end of a week and of a month.
RaceDays == { [y |-> 2024, m |-> 2, d |-> 31], [y |-> 2023, m |-> 11, d |-> 31] }

\* The (type, periodId) each context marks.
RaceKey(t) == PeriodKey(today, IF t = 1 THEN "weekly" ELSE "monthly")

InitRace ==
  /\ today \in RaceDays
  /\ clock = 0
  /\ lsSent \in {NoItem, PastLedger}
  /\ lsRatings = NoItem
  /\ lsEntries = NoItem
  /\ mailMode = "mailto"
  /\ autoSend = FALSE
  /\ cards = [t \in Tabs |-> <<>>]
  /\ reqs = [t \in Tabs |-> <<>>]
  /\ loaded = [t \in Tabs |-> FALSE]
  /\ saves = 0
  /\ days = 0
  /\ dispatched = EmptyObject
  /\ marked = EmptyObject
  /\ lastEval = [ calls |-> 0,
                  pc    |-> [t \in Tabs |-> "idle"],
                  sent  |-> [t \in Tabs |-> EmptyObject] ]
  /\ cleared = FALSE

\* var sent = readJson(SENT_KEY, {}) in context t.
RaceRead(t) ==
  /\ lastEval.pc[t] = "idle"
  /\ lastEval' = [lastEval EXCEPT !.pc[t] = "read", !.sent[t] = markSentRead(lsSent)]
  /\ UNCHANGED << today, clock, lsSent, lsRatings, lsEntries, mailMode, autoSend, cards,
                  reqs, loaded, saves, days, dispatched, marked, cleared >>

\* The rest of markSent in context t, ending with writeJson(SENT_KEY, sent).
RaceWrite(t) ==
  /\ lastEval.pc[t] = "read"
  /\ lsSent' = markSentWrite(lastEval.sent[t], RaceKey(t)[1], RaceKey(t)[2], clock)
  /\ lastEval' = [lastEval EXCEPT !.pc[t] = "done", !.calls = @ + 1]
  /\ UNCHANGED << today, clock, lsRatings, lsEntries, mailMode, autoSend, cards,
                  reqs, loaded, saves, days, dispatched, marked, cleared >>

NextRace ==
  \/ Tick
  \/ \E t \in Tabs : RaceRead(t)
  \/ \E t \in Tabs : RaceWrite(t)

SpecRace == InitRace /\ [][NextRace]_vars

\* A period marked by a context is in the ledger unless the other context
\* wrote afterwards the object it had read before the mark.
SerialMarksKept ==
  \A t \in Tabs :
    \/ lastEval.pc[t] # "done"
    \/ RaceKey(t) \in LedgerKeys(lsSent)
    \/ \E u \in Tabs \ {t} :
         lastEval.pc[u] = "done" /\ RaceKey(t) \notin LedgerKeys(writeJson(lastEval.sent[u]))

\* C28: markSent loses no entry under interleaving: when two contexts each
\* call markSent for different (type, periodId) pairs and the read and write
\* steps of the two calls interleave, both pairs are in the ledger after
\* both calls.
C28_NoLostMark ==
  (\A t \in Tabs : lastEval.pc[t] = "done") =>
    \A t \in Tabs : RaceKey(t) \in LedgerKeys(lsSent)

\* C29: a period is due only on its last day: every report getDueReports(now)
\* returns is for a window that ends on now, so a period whose last day
\* passed without evaluation or dispatch is returned on no later date.
C29_DueOnLastDayOnly ==
  lastEval.calls >= 1 =>
    \A i \in 1..Len(lastEval.due) :
      \E r \in {lastEval.due[i]}, now \in {lastEval.now} :
        /\ r.body[2][1] = "Period: "
        /\ r.body[2][4] = IsoOf(now)
        /\ Boundary(now, r.type)
        /\ Key(r) = PeriodKey(now, r.type)

\* getDueReports was called with an empty ledger on Wednesday 2025-01-01,
\* three days after the behaviour began on Sunday 2024-12-29: that week,
\* December 2024 and the year 2024 had ended and were not in the ledger, and
\* none of them was returned.
C29_Witness ==
  /\ lastEval.calls >= 1
  /\ lastEval.now = [y |-> 2025, m |-> 0, d |-> 1]
  /\ days = 3
  /\ LedgerKeys(lsSent) = {}
  /\ lastEval.due = <<>>

\* ------------------------------------------------------------------------
\* saveRatingForToday followed by getRatingsInRange and a report builder
\* ------------------------------------------------------------------------
\* The values saved: 3, 5 and 6.
RoundValues == SaveValues \cup {60}

\* start and end of the builder of a type, and its report.
WindowOf(now, type) ==
  CASE type = "weekly"  -> [start |-> weekStartMonday(cloneDate(now)), end |-> cloneDate(now)]
    [] type = "monthly" -> [start |-> monthStart(now), end |-> monthEnd(now)]
    [] type = "yearly"  -> [start |-> yearStart(now),  end |-> yearEnd(now)]

ReportOf(item, now, type) ==
  CASE type = "weekly"  -> buildWeeklyReport(item, now)
    [] type = "monthly" -> buildMonthlyReport(item, now)
    [] type = "yearly"  -> buildYearlyReport(item, now)

\* getRatingsInRange over the window of a type and the report of the type,
\* after a save of the same day.
RoundRead(type) ==
  /\ lastEval.calls >= 1
  /\ "read" \notin DOMAIN lastEval
  /\ \E w \in {WindowOf(today, type)} :
       lastEval' = [ calls |-> lastEval.calls, now |-> lastEval.now, ts |-> lastEval.ts,
                     key |-> lastEval.key, value |-> lastEval.value,
                     before |-> lastEval.before, after |-> lastEval.after,
                     read |-> [ type   |-> type,
                                rows   |-> getRatingsInRange(lsRatings, w.start, w.end),
                                report |-> ReportOf(lsRatings, today, type) ] ]
  /\ UNCHANGED << today, clock, lsSent, lsRatings, lsEntries, mailMode, autoSend,
                  cards, reqs, loaded, saves, days, dispatched, marked, cleared >>

NextRound ==
  \/ Tick
  \/ \E c \in SaveCats, value \in RoundValues : SaveCall(c, value)
  \/ \E type \in ReportTypes : RoundRead(type)

SpecRound == InitSave /\ [][NextRound]_vars

\* The hundredths a text d.dd of toFixed(2) stands for.
HundredthsOf(text) ==
  LET digit(ch) == (CHOOSE i \in 1..10 : Digits[i] = ch) - 1
  IN  100 * digit(text[1]) + 10 * digit(text[3]) + digit(text[4])

====
